---- MODULE Spec2Model ----
(***************************************************************************)
(* Model of plex-leon's safe-relocation and reconciliation code.           *)
(*                                                                         *)
(* Names are sequences of one-character strings, paths are sequences of    *)
(* names, and the filesystem is a function from the paths that exist to    *)
(* their nodes.  Every operation of the program is computed on that        *)
(* filesystem the way the Python code computes it.                         *)
(***************************************************************************)
EXTENDS Integers, Sequences, FiniteSets, TLC

VARIABLES
    fs,     \* the filesystem: path -> node
    ci,     \* TRUE on a case-insensitive filesystem
    pre,    \* the filesystem as it was before the last operation
    call,   \* the last operation and its arguments
    ret,    \* what the last operation returned
    out,    \* the lines the last operation printed
    ncalls, \* number of operations performed so far
    run     \* the local state of the utility run in progress

vars == <<fs, ci, pre, call, ret, out, ncalls, run>>

\* how many operations one behaviour performs
MaxCalls == 2

(***************************************************************************)
(* Characters and names                                                    *)
(***************************************************************************)
UPPER == <<"A","B","C","D","E","F","G","H","I","J","K","L","M",
           "N","O","P","Q","R","S","T","U","V","W","X","Y","Z">>
LOWER == <<"a","b","c","d","e","f","g","h","i","j","k","l","m",
           "n","o","p","q","r","s","t","u","v","w","x","y","z">>
DIGITS == <<"0","1","2","3","4","5","6","7","8","9">>

IsDigit(c) == \E i \in 1..10 : DIGITS[i] = c
DigitVal(c) == (CHOOSE i \in 1..10 : DIGITS[i] = c) - 1
DigitChar(n) == DIGITS[n + 1]

UpperSet == {UPPER[i] : i \in 1..26}
ToLower == [c \in UpperSet |-> LOWER[CHOOSE i \in 1..26 : UPPER[i] = c]]

\* str.lower() on one character
lower_char(c) == IF c \in UpperSet THEN ToLower[c] ELSE c

\* str.lower()
lower(s) == [i \in 1..Len(s) |-> lower_char(s[i])]

\* str.startswith(prefix)
startswith(s, prefix) ==
    /\ Len(prefix) <= Len(s)
    /\ SubSeq(s, 1, Len(prefix)) = prefix

\* LET x == v IN F(x), with v evaluated once
Bind(v, F(_)) == F(v)

\* str.rfind("."): the last index of a dot, 0 when there is none
RfindDot(s) == IF \E i \in 1..Len(s) : s[i] = "."
               THEN CHOOSE i \in 1..Len(s) :
                        /\ s[i] = "."
                        /\ \A j \in (i+1)..Len(s) : s[j] # "."
               ELSE 0

\* PurePath.suffix: from the last dot, unless the dot leads or ends the name
suffix(name) == Bind(RfindDot(name), LAMBDA i :
                    IF 1 < i /\ i < Len(name)
                    THEN SubSeq(name, i, Len(name)) ELSE <<>>)

\* PurePath.stem
stem(name) == Bind(RfindDot(name), LAMBDA i :
                  IF 1 < i /\ i < Len(name)
                  THEN SubSeq(name, 1, i - 1) ELSE name)

RECURSIVE int_str(_)
\* str(n) for n >= 0
int_str(n) == IF n < 10 THEN <<DigitChar(n)>>
              ELSE int_str(n \div 10) \o <<DigitChar(n % 10)>>

(***************************************************************************)
(* Filesystem (POSIX semantics; lookups fold case when ci holds)            *)
(***************************************************************************)
DirNode == [kind |-> "dir", data |-> 0]
FileNode(d) == [kind |-> "file", data |-> d]

Root == <<>>
Parent(p) == SubSeq(p, 1, Len(p) - 1)
Last(p) == p[Len(p)]
IsPrefix(p, q) == Len(p) <= Len(q) /\ SubSeq(q, 1, Len(p)) = p

\* two names the filesystem takes for the same entry
SameName(m, n) ==
    IF ci THEN /\ Len(m) = Len(n)
               /\ \A j \in 1..Len(m) : lower_char(m[j]) = lower_char(n[j])
    ELSE m = n
SameKey(p, q) == /\ Len(p) = Len(q)
                 /\ \A i \in 1..Len(p) : SameName(p[i], q[i])

RECURSIVE Resolve(_, _)
\* the stored path a lookup of p reaches (p itself when nothing is there)
Resolve(f, p) ==
    IF ~ci THEN p
    ELSE IF \E q \in DOMAIN f : SameKey(q, p)
    THEN CHOOSE q \in DOMAIN f : SameKey(q, p)
    ELSE IF p = Root THEN p
    ELSE Append(Resolve(f, Parent(p)), Last(p))

\* the node stored at p, or "absent"
NodeAt(f, p) == Bind(Resolve(f, p), LAMBDA rp :
                    IF rp \in DOMAIN f THEN f[rp] ELSE [kind |-> "absent", data |-> 0])

\* Path.exists(), Path.is_dir(), Path.is_file()
exists(f, p) == Resolve(f, p) \in DOMAIN f
is_dir(f, p) == NodeAt(f, p).kind = "dir"
is_file(f, p) == NodeAt(f, p).kind = "file"

\* the stored paths at and below p
Subtree(f, p) == {q \in DOMAIN f : IsPrefix(p, q)}

\* Path.iterdir(): the names directly inside directory p
iterdir(f, p) == Bind(Resolve(f, p), LAMBDA rp :
                     {Last(q) : q \in {x \in DOMAIN f : Len(x) = Len(rp) + 1 /\ IsPrefix(rp, x)}})

\* the subtree below p as a function from relative paths to nodes
Content(f, p) == Bind(Resolve(f, p), LAMBDA rp :
                     [r \in {SubSeq(q, Len(rp) + 1, Len(q)) : q \in Subtree(f, rp)}
                        |-> f[rp \o r]])

\* f without the paths in gone
Without(f, gone) == [q \in DOMAIN f \ gone |-> f[q]]

\* os.rename of the stored path ra to the stored path rb, which gets name tp
rename_resolved(f, ra, rb, tp, fail) ==
    IF \/ fail
       \/ ra \notin DOMAIN f
       \/ ra = Root \/ rb = Root
       \/ Parent(rb) \notin DOMAIN f
       \/ f[Parent(rb)].kind # "dir"
       \/ (IsPrefix(ra, rb) /\ ra # rb)
       \/ /\ rb \in DOMAIN f
          /\ ra # rb
          /\ \/ f[ra].kind # f[rb].kind
             \/ (f[rb].kind = "dir" /\ Subtree(f, rb) # {rb})
    THEN [ok |-> FALSE, fs |-> f]
    ELSE [ok |-> TRUE,
          fs |-> [q \in {x \in DOMAIN f : ~IsPrefix(ra, x) /\ ~IsPrefix(rb, x)}
                        \cup {tp \o SubSeq(x, Len(ra) + 1, Len(x)) : x \in Subtree(f, ra)} |->
                    IF IsPrefix(tp, q)
                    THEN f[ra \o SubSeq(q, Len(tp) + 1, Len(q))]
                    ELSE f[q]]]

\* os.rename(a, b); fail = the call raises OSError for an outside reason
rename(f, a, b, fail) ==
    IF b = Root THEN [ok |-> FALSE, fs |-> f]
    ELSE Bind(Resolve(f, b), LAMBDA rb :
            rename_resolved(f, Resolve(f, a), rb, Append(Parent(rb), Last(b)), fail))

\* Path.unlink()
unlink(f, p) == Bind(Resolve(f, p), LAMBDA rp :
    IF rp \in DOMAIN f /\ f[rp].kind = "file"
    THEN [ok |-> TRUE, fs |-> Without(f, {rp})]
    ELSE [ok |-> FALSE, fs |-> f])

\* shutil.rmtree(p)
rmtree(f, p) == Bind(Resolve(f, p), LAMBDA rp :
    IF rp \in DOMAIN f /\ f[rp].kind = "dir" /\ rp # Root
    THEN [ok |-> TRUE, fs |-> Without(f, Subtree(f, rp))]
    ELSE [ok |-> FALSE, fs |-> f])

\* Path.rmdir()
rmdir(f, p, fail) == Bind(Resolve(f, p), LAMBDA rp :
    IF ~fail /\ rp \in DOMAIN f /\ f[rp].kind = "dir" /\ Subtree(f, rp) = {rp}
    THEN [ok |-> TRUE, fs |-> Without(f, {rp})]
    ELSE [ok |-> FALSE, fs |-> f])

\* f with a new directory at the stored path rp
WithDir(f, rp) == [q \in DOMAIN f \cup {rp} |-> IF q = rp THEN DirNode ELSE f[q]]

RECURSIVE mkdir_parents(_, _)
\* Path.mkdir(parents=True, exist_ok=True)
mkdir_parents(f, p) ==
    Bind(NodeAt(f, p), LAMBDA n :
        IF n.kind # "absent" THEN [ok |-> n.kind = "dir", fs |-> f]
        ELSE Bind(mkdir_parents(f, Parent(p)), LAMBDA up :
                IF ~up.ok THEN up
                ELSE [ok |-> TRUE, fs |-> WithDir(up.fs, Resolve(up.fs, p))]))

\* Path.mkdir(exist_ok=True): the parent must exist
mkdir(f, p) ==
    Bind(NodeAt(f, p), LAMBDA n :
        IF n.kind # "absent" THEN [ok |-> n.kind = "dir", fs |-> f]
        ELSE IF ~is_dir(f, Parent(p)) THEN [ok |-> FALSE, fs |-> f]
        ELSE [ok |-> TRUE, fs |-> WithDir(f, Resolve(f, p))])

(***************************************************************************)
(* Printed lines                                                           *)
(***************************************************************************)
Line(tag, a, b) == [tag |-> tag, a |-> a, b |-> b]
HasLine(o, tag) == \E i \in 1..Len(o) : o[i].tag = tag

(***************************************************************************)
(* utils.two_step_case_rename                                              *)
(***************************************************************************)
SWAP_PREFIX == <<".","p","l","e","x","l","e","o","n","_","s","w","a","p","_">>

RECURSIVE swap_probe(_, _, _, _)
\* the loop of two_step_case_rename: append .1, .2, ... until the name is free
swap_probe(f, parent, swap_name, i) ==
    IF exists(f, Append(parent, swap_name \o <<".">> \o int_str(i)))
    THEN swap_probe(f, parent, swap_name, i + 1)
    ELSE Append(parent, swap_name \o <<".">> \o int_str(i))

\* the swap path two_step_case_rename picks for new_name
unique_swap_path(f, parent, new_name) ==
    IF exists(f, Append(parent, SWAP_PREFIX \o new_name))
    THEN swap_probe(f, parent, SWAP_PREFIX \o new_name, 1)
    ELSE Append(parent, SWAP_PREFIX \o new_name)

\* what a call of two_step_case_rename did: the filesystem it left, what it
\* returned and printed, the swap path, and how each rename step ended
RnResult(f, r, o, swap, h1, h2, bk) ==
    [fs |-> f, ret |-> r, out |-> o, swap |-> swap, hop1 |-> h1, hop2 |-> h2, back |-> bk]

Ended(r) == IF r.ok THEN "ok" ELSE "raised"

\* the except branch without the rollback
rollback_if_swapped_missing(f, old_path, new_path, swap_path, h1, h2, f3) ==
    RnResult(f, FALSE, <<Line("ERROR", old_path, new_path)>>,
             swap_path, h1, h2, "none")

\* the except branch of two_step_case_rename: rename the swap back if it
\* exists; h1 and h2 tell how the two hops ended
rollback_if_swapped(f, old_path, new_path, swap_path, h1, h2, f3) ==
    IF exists(f, swap_path)
    THEN Bind(rename(f, swap_path, old_path, f3), LAMBDA back :
            RnResult(back.fs, FALSE, <<Line("ERROR", old_path, new_path)>>,
                     swap_path, h1, h2, Ended(back)))
    ELSE RnResult(f, FALSE, <<Line("ERROR", old_path, new_path)>>,
                  swap_path, h1, h2, "none")

\* the SKIP exists branch leaving the swap in place
skip_exists_missing(f, old_path, new_path, swap_path, f3) ==
    RnResult(f, FALSE, <<Line("SKIP exists", new_path, new_path)>>,
             swap_path, "ok", "none", "none")

\* the SKIP exists branch of two_step_case_rename: rename the swap back
skip_exists(f, old_path, new_path, swap_path, f3) ==
    Bind(rename(f, swap_path, old_path, f3), LAMBDA back :
        RnResult(back.fs, FALSE, <<Line("SKIP exists", new_path, new_path)>>,
                 swap_path, "ok", "none", Ended(back)))

\* two_step_case_rename(old_path, new_path, dry_run); f1, f2, f3 tell whether
\* the first hop, the second hop and the rollback raise OSError for an
\* outside reason (permissions, a concurrent change)
two_step_case_rename(f, old_path, new_path, dry_run, f1, f2, f3) ==
    Bind(unique_swap_path(f, Parent(old_path), Last(new_path)), LAMBDA swap_path :
        IF dry_run
        THEN RnResult(f, TRUE, <<Line("RENAME", old_path, swap_path),
                                 Line("RENAME", swap_path, new_path)>>,
                      swap_path, "none", "none", "none")
        ELSE Bind(rename(f, old_path, swap_path, f1), LAMBDA hop1 :
            IF ~hop1.ok
            THEN rollback_if_swapped(f, old_path, new_path, swap_path,
                                     "raised", "none", f3)
            ELSE IF exists(hop1.fs, new_path)
            THEN skip_exists(hop1.fs, old_path, new_path, swap_path, f3)
            ELSE Bind(rename(hop1.fs, swap_path, new_path, f2), LAMBDA hop2 :
                IF hop2.ok
                THEN RnResult(hop2.fs, TRUE, <<>>, swap_path, "ok", "ok", "none")
                ELSE rollback_if_swapped(hop2.fs, old_path, new_path, swap_path,
                                         "ok", "raised", f3))))

(***************************************************************************)
(* Specification of two_step_case_rename: one directory of files, any      *)
(* sequence of calls                                                        *)
(***************************************************************************)
NoCall == [op |-> "none"]
\* no run of a utility is in progress
NoRun == [pc |-> "idle"]

RnUpper == <<"A">>
RnLower == <<"a">>
RnOther == <<"b">>
RnNames == {RnUpper, RnLower, RnOther}
RnSwap == SWAP_PREFIX \o RnLower

\* the files the directory may hold at the start, each with its own content
RnData(n) == CASE n = RnUpper -> 1 [] n = RnLower -> 2 [] n = RnOther -> 3 [] OTHER -> 4

RnTree(S) == [p \in {Root} \cup {<<n>> : n \in S} |->
                IF p = Root THEN DirNode ELSE FileNode(RnData(p[1]))]

InitRename ==
    /\ ci \in BOOLEAN
    /\ \E S \in SUBSET (RnNames \cup {RnSwap}) :
          /\ RnUpper \in S
          /\ (ci => RnLower \notin S)
          /\ fs = RnTree(S)
    /\ pre = fs
    /\ call = NoCall
    /\ ret = FALSE
    /\ out = <<>>
    /\ ncalls = 0
    /\ run = NoRun

\* the outcomes of the three rename calls that tell runs apart: a dry run
\* makes no call, and a raising first hop ends the call
RnInputs == {<<TRUE, FALSE, FALSE, FALSE>>,
             <<FALSE, FALSE, FALSE, FALSE>>, <<FALSE, TRUE, FALSE, FALSE>>,
             <<FALSE, FALSE, TRUE, FALSE>>, <<FALSE, FALSE, FALSE, TRUE>>,
             <<FALSE, FALSE, TRUE, TRUE>>}

TwoStepCaseRename ==
    /\ ncalls < MaxCalls
    /\ ncalls' = ncalls + 1
    /\ \E o \in {RnUpper, RnLower}, n \in {RnLower, RnOther}, i \in RnInputs :
        LET r == two_step_case_rename(fs, <<o>>, <<n>>, i[1], i[2], i[3], i[4])
        IN  /\ fs' = r.fs
            /\ pre' = fs
            /\ call' = [op |-> "two_step_case_rename", old |-> <<o>>, new |-> <<n>>,
                        dry_run |-> i[1], inj |-> <<i[2], i[3], i[4]>>,
                        swap |-> r.swap,
                        hop1 |-> r.hop1, hop2 |-> r.hop2, back |-> r.back]
            /\ ret' = r.ret
            /\ out' = r.out
            /\ UNCHANGED <<ci, run>>

NextRename == TwoStepCaseRename

SpecRename == InitRename /\ [][NextRename]_vars

(***************************************************************************)
(* Claims about two_step_case_rename                                       *)
(***************************************************************************)
RnReal == /\ call.op = "two_step_case_rename"
          /\ ~call.dry_run
          /\ exists(pre, call.old)

\* where the renamed file is expected after the call
RnSettled == /\ ~exists(fs, call.swap)
             /\ IF ret THEN NodeAt(fs, call.new) = NodeAt(pre, call.old)
                       ELSE NodeAt(fs, call.old) = NodeAt(pre, call.old)

RnConflict == /\ RnReal
              /\ call.inj = <<FALSE, FALSE, FALSE>>
              /\ exists(pre, call.new)
              /\ Resolve(pre, call.new) # Resolve(pre, call.old)

\* C3: when new exists as a different entry, the call returns False, prints
\* SKIP exists, the file is back at old, nothing is left at the swap path
\* and the content at new is unchanged.
C3_ConflictRollsBack ==
    RnConflict => /\ ~ret
                  /\ HasLine(out, "SKIP exists")
                  /\ call.back = "ok"
                  /\ ~exists(fs, call.swap)
                  /\ NodeAt(fs, call.old) = NodeAt(pre, call.old)
                  /\ NodeAt(fs, call.new) = NodeAt(pre, call.new)

\* C3 witness: a conflicting call has run and rolled back.
C3_Witness == RnConflict /\ call.back = "ok" /\ HasLine(out, "SKIP exists")

\* C4 as stated: a second real call with the same arguments, right after a
\* first call that succeeded and left nothing at old, changes nothing and
\* reports no failure (returns True, prints no ERROR).
C4_RetryIsNoOpNotError ==
    [][ ( /\ RnReal /\ ret /\ ~exists(fs, call.old)
          /\ call.inj = <<FALSE, FALSE, FALSE>>
          /\ call'.op = "two_step_case_rename"
          /\ call'.old = call.old /\ call'.new = call.new
          /\ ~call'.dry_run
          /\ call'.inj = <<FALSE, FALSE, FALSE>> )
        => (fs' = fs /\ ret' /\ ~HasLine(out', "ERROR")) ]_vars

(***************************************************************************)
(* move_file                                                               *)
(***************************************************************************)
\* what a call of move_file did: the filesystem it left, what it printed and
\* whether it raised
MvResult(f, o, raised) == [fs |-> f, out |-> o, raised |-> raised]

\* shutil.move(src, dst): into dst when dst is a directory other than src,
\* else os.rename; raises when the rename cannot be done
shutil_move(f, src, dst) ==
    IF is_dir(f, dst)
    THEN IF exists(f, src) /\ Resolve(f, src) = Resolve(f, dst)
         THEN rename(f, src, dst, FALSE)
         ELSE IF exists(f, Append(dst, Last(src)))
              THEN [ok |-> FALSE, fs |-> f]
              ELSE rename(f, src, Append(dst, Last(src)), FALSE)
    ELSE rename(f, src, dst, FALSE)

\* move_file keeping an existing destination
remove_existing_kept(f, dst) == [ok |-> TRUE, fs |-> f]

\* move_file, the removal of an existing destination: unlink or rmtree
remove_existing(f, dst) ==
    IF ~exists(f, dst) THEN [ok |-> TRUE, fs |-> f]
    ELSE IF is_file(f, dst) THEN unlink(f, dst)
    ELSE rmtree(f, dst)

\* move_file after the MOVE line, real mode
move_now(f, src, dst) ==
    Bind(remove_existing(f, dst), LAMBDA rm :
        IF ~rm.ok THEN MvResult(rm.fs, <<Line("MOVE", src, dst)>>, TRUE)
        ELSE Bind(shutil_move(rm.fs, src, dst), LAMBDA mv :
                MvResult(mv.fs, <<Line("MOVE", src, dst)>>, ~mv.ok)))

\* move_file never skipping
dst_blocks_never(f, dst, overwrite) == FALSE

\* move_file, the skip test: dst.exists() and not overwrite
dst_blocks(f, dst, overwrite) == exists(f, dst) /\ ~overwrite

\* move_file(src, dst, overwrite=..., dry_run=...)
move_file(f, src, dst, overwrite, dry_run) ==
    Bind(mkdir_parents(f, Parent(dst)), LAMBDA m :
        IF ~m.ok THEN MvResult(f, <<>>, TRUE)
        ELSE IF dst_blocks(m.fs, dst, overwrite)
        THEN MvResult(m.fs, <<Line("SKIP exists", dst, dst)>>, FALSE)
        ELSE IF dry_run
        THEN MvResult(m.fs, <<Line("MOVE", src, dst)>>, FALSE)
        ELSE move_now(m.fs, src, dst))

(***************************************************************************)
(* Specification of move_file: a source that is a file or a directory, a   *)
(* destination that is absent, a file or a directory, directly in the root *)
(* or below a parent that may be missing                                   *)
(***************************************************************************)
MaxMoves == 2

MvSrc == <<<<"s">>>>
MvSrcUpper == <<<<"S">>>>
MvDst == <<<<"d">>>>
MvSub == <<<<"s", "u", "b">>>>
MvSubDst == MvSub \o MvDst

\* the shapes of one entry: absent, a file, an empty directory, a directory
\* holding one file
MvShape(p, kind, d) ==
    CASE kind = "absent" -> <<>>
      [] kind = "file"   -> (p :> FileNode(d))
      [] kind = "dir"    -> (p :> DirNode)
      [] kind = "full"   -> (p :> DirNode) @@ (Append(p, <<"x">>) :> FileNode(d + 1))

\* the paths of a tree given as a sequence of shapes
MvJoin(a, b) == [q \in DOMAIN a \cup DOMAIN b |-> IF q \in DOMAIN a THEN a[q] ELSE b[q]]

MvEmpty == [q \in {Root} |-> DirNode]

MvTree(ks, kd, ku, kud) ==
    MvJoin(MvJoin(MvEmpty, MvShape(MvSrc, ks, 1)),
           MvJoin(MvShape(MvDst, kd, 3),
                  MvJoin(MvShape(MvSub, ku, 5), MvShape(MvSubDst, kud, 7))))

InitMove ==
    /\ ci \in BOOLEAN
    /\ \E ks \in {"file", "full"}, kd \in {"absent", "file", "dir", "full"},
          ku \in {"absent", "file", "dir"}, kud \in {"absent", "file"} :
          /\ (kud # "absent" => ku = "dir")
          /\ fs = MvTree(ks, kd, ku, kud)
    /\ pre = fs
    /\ call = NoCall
    /\ ret = FALSE
    /\ out = <<>>
    /\ ncalls = 0
    /\ run = NoRun

MoveFile ==
    /\ ncalls < MaxMoves
    /\ ncalls' = ncalls + 1
    /\ \E dst \in {MvDst, MvSubDst, MvSrc, MvSrcUpper}, overwrite \in BOOLEAN,
          dry_run \in BOOLEAN :
        LET r == move_file(fs, MvSrc, dst, overwrite, dry_run)
        IN  /\ fs' = r.fs
            /\ pre' = fs
            /\ call' = [op |-> "move_file", src |-> MvSrc, dst |-> dst,
                        overwrite |-> overwrite, dry_run |-> dry_run,
                        raised |-> r.raised]
            /\ ret' = ~r.raised
            /\ out' = r.out
            /\ UNCHANGED <<ci, run>>

NextMove == MoveFile

SpecMove == InitMove /\ [][NextMove]_vars

(***************************************************************************)
(* Claims about move_file                                                  *)
(***************************************************************************)
MvCalled == call.op = "move_file"

\* C5 as stated: a dry run of move_file on an existing source, with the
\* destination free or overwrite set, changes nothing in the filesystem
\* (no parent directory of the destination is created either) and prints
\* the MOVE line.
C5_DryRunMutatesNothing ==
    (/\ MvCalled /\ call.dry_run /\ ~call.raised
     /\ exists(pre, call.src)
     /\ (call.overwrite \/ ~exists(pre, call.dst)))
    => (fs = pre /\ out = <<Line("MOVE", call.src, call.dst)>>)

\* C6: when the destination exists and overwrite is False, move_file changes
\* nothing in the filesystem (source and destination included) and prints
\* only SKIP exists, in dry-run and in real mode.
C6_ExistingDstWithoutOverwriteIsSkipped ==
    (MvCalled /\ exists(pre, call.dst) /\ ~call.overwrite)
    => (/\ fs = pre
        /\ out = <<Line("SKIP exists", call.dst, call.dst)>>
        /\ ~call.raised)

\* C6 witness: a real call on an existing source with an existing, different
\* destination and overwrite False has printed SKIP exists.
C6_Witness ==
    /\ MvCalled /\ ~call.overwrite /\ ~call.dry_run
    /\ exists(pre, call.src) /\ exists(pre, call.dst)
    /\ Resolve(pre, call.src) # Resolve(pre, call.dst)
    /\ HasLine(out, "SKIP exists")

\* the destination exists as an entry other than the source
MvOverwrites ==
    /\ MvCalled /\ call.overwrite /\ ~call.dry_run
    /\ exists(pre, call.src) /\ exists(pre, call.dst)
    /\ Resolve(pre, call.src) # Resolve(pre, call.dst)

\* C7: when the destination exists (as an entry other than the source),
\* overwrite is True and the run is real, move_file returns with the source
\* path gone and the destination holding exactly what the source held:
\* nothing of the old destination is left.
C7_OverwriteReplacesDst ==
    MvOverwrites => (/\ ~call.raised
                     /\ ~exists(fs, call.src)
                     /\ Content(fs, call.dst) = Content(pre, call.src)
                     /\ HasLine(out, "MOVE"))

\* C7 witness: a non-empty destination directory has been replaced by the
\* source.
C7_Witness ==
    /\ MvOverwrites
    /\ is_dir(pre, call.dst) /\ iterdir(pre, call.dst) # {}
    /\ Content(fs, call.dst) = Content(pre, call.src)

(***************************************************************************)
(* Season renamer (season_renamer.process_library): the work done for one  *)
(* directory name d found by os.walk in dirpath                            *)
(***************************************************************************)
\* the characters of the names of the model in code point order
ORD == <<" ", "(", ")", "-", ".">> \o DIGITS \o UPPER \o <<"_">> \o LOWER \o <<"{", "}">>
CharIdx == [c \in {ORD[i] : i \in DOMAIN ORD} |-> CHOOSE i \in DOMAIN ORD : ORD[i] = c]

\* a < b for two names, as sorted() orders the paths of one directory
name_less(a, b) ==
    \E k \in 1..Len(b) :
        /\ k <= Len(a) + 1
        /\ SubSeq(a, 1, k - 1) = SubSeq(b, 1, k - 1)
        /\ (k = Len(a) + 1 \/ CharIdx[a[k]] < CharIdx[b[k]])

\* the first name of sorted(S)
MinName(S) == CHOOSE x \in S : \A y \in S \ {x} : name_less(x, y)

\* _DIGITS_RE.findall(name): where the maximal runs of digits start and end
RunStarts(name) == {i \in 1..Len(name) : IsDigit(name[i]) /\ (i = 1 \/ ~IsDigit(name[i - 1]))}
RunEnd(name, i) == CHOOSE j \in i..Len(name) :
                       /\ \A k \in i..j : IsDigit(name[k])
                       /\ (j = Len(name) \/ ~IsDigit(name[j + 1]))

RECURSIVE int_of(_)
\* int(digits)
int_of(ds) == IF ds = <<>> THEN 0
              ELSE 10 * int_of(SubSeq(ds, 1, Len(ds) - 1)) + DigitVal(ds[Len(ds)])

\* a name with at least one run of digits taken as a season folder, with its
\* first run as the number
is_season_dir_name_any_run(name) ==
    IF RunStarts(name) = {} THEN [ok |-> FALSE, num |-> 0]
    ELSE Bind(CHOOSE i \in RunStarts(name) : \A j \in RunStarts(name) : i <= j, LAMBDA i :
            [ok |-> TRUE, num |-> int_of(SubSeq(name, i, RunEnd(name, i)))])

\* _is_season_dir_name(name): exactly one run of digits, and its number
is_season_dir_name(name) ==
    IF Cardinality(RunStarts(name)) # 1 THEN [ok |-> FALSE, num |-> 0]
    ELSE Bind(CHOOSE i \in RunStarts(name) : TRUE, LAMBDA i :
            [ok |-> TRUE, num |-> int_of(SubSeq(name, i, RunEnd(name, i)))])

\* f"{num:02d}"
format02(num) == IF num < 10 THEN <<"0", DigitChar(num)>> ELSE int_str(num)

\* f"Season {num:02d}"
season_name(num) == <<"S", "e", "a", "s", "o", "n", " ">> \o format02(num)

CONFLICTS_DIR == <<".", "p", "l", "e", "x", "l", "e", "o", "n", "_",
                   "c", "o", "n", "f", "l", "i", "c", "t", "s">>
CONFLICT_TAG == <<" ", "(", "c", "o", "n", "f", "l", "i", "c", "t">>

\* the n-th name tried for a conflicting item: "<stem> (conflict)<suffix>",
\* then "<stem> (conflict 1)<suffix>", "<stem> (conflict 2)<suffix>", ...
conflict_name(base, sfx, n) ==
    IF n = 0 THEN base \o CONFLICT_TAG \o <<")">> \o sfx
    ELSE base \o CONFLICT_TAG \o <<" ">> \o int_str(n) \o <<")">> \o sfx

RECURSIVE conflict_probe(_, _, _, _, _)
\* the while loop picking the first conflict name that is free
conflict_probe(f, conflicts_dir, base, sfx, n) ==
    IF exists(f, Append(conflicts_dir, conflict_name(base, sfx, n)))
    THEN conflict_probe(f, conflicts_dir, base, sfx, n + 1)
    ELSE Append(conflicts_dir, conflict_name(base, sfx, n))

\* the filesystem and the printed lines while a directory is worked on
SnAcc(f, o) == [fs |-> f, out |-> o]

\* the merge loop body renaming every item onto its own name
merge_item_overwriting(acc, swap_path, new_path, item, fail) ==
    Bind(rename(acc.fs, Append(swap_path, item), Append(new_path, item), fail), LAMBDA r :
        SnAcc(r.fs, IF r.ok THEN acc.out
                    ELSE Append(acc.out, Line("ERROR", Append(swap_path, item),
                                              Append(new_path, item)))))

\* the merge loop body: an item whose name is free in new_path is renamed
\* into it; an item whose name is taken goes to new_path/.plexleon_conflicts
\* under the first free conflict name; a rename that raises prints ERROR
merge_item(acc, swap_path, new_path, item, fail) ==
    IF exists(acc.fs, Append(new_path, item))
    THEN Bind(mkdir(acc.fs, Append(new_path, CONFLICTS_DIR)), LAMBDA mk :
         Bind(conflict_probe(mk.fs, Append(new_path, CONFLICTS_DIR),
                             stem(item), suffix(item), 0), LAMBDA conflict_dest :
         Bind(rename(mk.fs, Append(swap_path, item), conflict_dest, fail), LAMBDA r :
            SnAcc(r.fs, Append(acc.out, Line(IF r.ok THEN "CONFLICT" ELSE "ERROR",
                                             Append(swap_path, item), conflict_dest))))))
    ELSE Bind(rename(acc.fs, Append(swap_path, item), Append(new_path, item), fail), LAMBDA r :
            SnAcc(r.fs, IF r.ok THEN acc.out
                        ELSE Append(acc.out, Line("ERROR", Append(swap_path, item),
                                                  Append(new_path, item)))))

RECURSIVE merge_items(_, _, _, _, _)
\* for item in sorted(swap_path.iterdir()); failing = the items whose rename
\* raises OSError for an outside reason
merge_items(acc, swap_path, new_path, items, failing) ==
    IF items = {} THEN acc
    ELSE Bind(MinName(items), LAMBDA item :
            merge_items(merge_item(acc, swap_path, new_path, item, item \in failing),
                        swap_path, new_path, items \ {item}, failing))

\* the end of the merge leaving the swap directory in place
remove_empty_swap_never(acc, swap_path, failing) == acc

\* the swap directory is removed when the merge left it empty; a rmdir that
\* raises prints WARN
remove_empty_swap(acc, swap_path, failing) ==
    IF iterdir(acc.fs, swap_path) # {} THEN acc
    ELSE Bind(rmdir(acc.fs, swap_path, Last(swap_path) \in failing), LAMBDA r :
            SnAcc(r.fs, IF r.ok THEN acc.out
                        ELSE Append(acc.out, Line("WARN", swap_path, swap_path))))

\* what the work on one directory did
SnResult(acc, renamed, branch, new_path, swap_path) ==
    [fs |-> acc.fs, out |-> acc.out, renamed |-> renamed, branch |-> branch,
     new |-> new_path, swap |-> swap_path]

\* the case-only path: old -> swap -> new, merging when new exists; failing =
\* the names whose rename or rmdir raises OSError for an outside reason (an
\* item of the merged folder, the canonical name for the second hop, the
\* swap name for its removal)
case_only(f, old_path, new_path, swap_path, dry_run, failing) ==
    IF dry_run
    THEN SnResult(SnAcc(f, <<Line("RENAME", old_path, swap_path),
                             Line(IF exists(f, new_path) THEN "MERGE" ELSE "RENAME",
                                  swap_path, new_path)>>),
                  1, "dry", new_path, swap_path)
    ELSE Bind(rename(f, old_path, swap_path, FALSE), LAMBDA hop1 :
        IF ~hop1.ok
        THEN SnResult(SnAcc(f, <<Line("ERROR", old_path, new_path)>>),
                      0, "error", new_path, swap_path)
        ELSE IF ~exists(hop1.fs, new_path)
        THEN Bind(rename(hop1.fs, swap_path, new_path, Last(new_path) \in failing),
                  LAMBDA hop2 :
                IF hop2.ok
                THEN SnResult(SnAcc(hop2.fs, <<>>), 1, "renamed", new_path, swap_path)
                ELSE SnResult(SnAcc(hop2.fs, <<Line("ERROR", old_path, new_path)>>),
                              0, "error", new_path, swap_path))
        ELSE SnResult(remove_empty_swap(
                          merge_items(SnAcc(hop1.fs, <<>>), swap_path, new_path,
                                      iterdir(hop1.fs, swap_path), failing),
                          swap_path, failing),
                      1, "merged", new_path, swap_path))

\* the other path: a direct rename unless the target exists
direct_rename(f, old_path, new_path, dry_run) ==
    IF exists(f, new_path)
    THEN SnResult(SnAcc(f, <<Line("SKIP exists", new_path, new_path)>>),
                  0, "skip", new_path, Root)
    ELSE IF dry_run
    THEN SnResult(SnAcc(f, <<Line("RENAME", old_path, new_path)>>),
                  1, "dry", new_path, Root)
    ELSE Bind(rename(f, old_path, new_path, FALSE), LAMBDA r :
            IF r.ok THEN SnResult(SnAcc(r.fs, <<>>), 1, "renamed", new_path, Root)
            ELSE SnResult(SnAcc(f, <<Line("ERROR", old_path, new_path)>>),
                          0, "error", new_path, Root))

\* the body of "for d in list(dirnames)" of process_library
process_dir(f, dirpath, d, dry_run, failing) ==
    IF ~is_dir(f, Append(dirpath, d))
    THEN SnResult(SnAcc(f, <<>>), 0, "none", Root, Root)
    ELSE Bind(is_season_dir_name(d), LAMBDA sn :
        IF ~sn.ok \/ d = season_name(sn.num)
        THEN SnResult(SnAcc(f, <<>>), 0, "none", Root, Root)
        ELSE IF lower(d) = lower(season_name(sn.num))
        THEN case_only(f, Append(dirpath, d), Append(dirpath, season_name(sn.num)),
                       unique_swap_path(f, dirpath, season_name(sn.num)),
                       dry_run, failing)
        ELSE direct_rename(f, Append(dirpath, d), Append(dirpath, season_name(sn.num)),
                           dry_run))

(***************************************************************************)
(* Specification of the season renamer on one show directory: a            *)
(* non-canonical season folder, the canonical one (absent, or holding      *)
(* entries and possibly a .plexleon_conflicts entry) and another season    *)
(* folder of the same number                                               *)
(***************************************************************************)
MaxSeasonDirs == 2

SnOld == <<"s", "e", "a", "s", "o", "n", " ", "0", "1">>
SnNew == <<"S", "e", "a", "s", "o", "n", " ", "0", "1">>
SnAlt == <<"s", "1">>
SnItemA == <<"a", ".", "t">>
SnItemB == <<"b">>
SnConflictA0 == conflict_name(<<"a">>, <<".", "t">>, 0)
SnConflictA1 == conflict_name(<<"a">>, <<".", "t">>, 1)
SnSwap == SWAP_PREFIX \o SnNew

\* the filesystem holding the given <<path, node>> pairs
FsOf(S) == [p \in {e[1] : e \in S} |-> (CHOOSE e \in S : e[1] = p)[2]]

SnOldData(n) == IF n = SnItemA THEN 1 ELSE 2
SnNewData(n) == IF n = SnItemA THEN 11 ELSE 12
SnConfData(n) == IF n = SnConflictA0 THEN 14 ELSE 15

SnFs(oldItems, newKind, newItems, conf, confItems, alt) ==
    FsOf({<<Root, DirNode>>, <<<<SnOld>>, DirNode>>}
         \cup {<<<<SnOld, n>>, FileNode(SnOldData(n))>> : n \in oldItems}
         \cup (IF newKind = "dir" THEN {<<<<SnNew>>, DirNode>>} ELSE {})
         \cup {<<<<SnNew, n>>, FileNode(SnNewData(n))>> : n \in newItems}
         \cup (CASE conf = "absent" -> {}
                 [] conf = "file" -> {<<<<SnNew, CONFLICTS_DIR>>, FileNode(13)>>}
                 [] conf = "dir" -> {<<<<SnNew, CONFLICTS_DIR>>, DirNode>>})
         \cup {<<<<SnNew, CONFLICTS_DIR, n>>, FileNode(SnConfData(n))>> : n \in confItems}
         \cup (IF alt THEN {<<<<SnAlt>>, DirNode>>} ELSE {}))

InitSeason ==
    /\ ci \in BOOLEAN
    /\ \E oldItems \in SUBSET {SnItemA, SnItemB}, newKind \in {"absent", "dir"},
          newItems \in SUBSET {SnItemA, SnItemB}, conf \in {"absent", "file", "dir"},
          confItems \in SUBSET {SnConflictA0, SnConflictA1}, alt \in BOOLEAN :
          /\ (ci => newKind = "absent")
          /\ (newKind = "absent" => (newItems = {} /\ conf = "absent"))
          /\ (conf # "dir" => confItems = {})
          /\ fs = SnFs(oldItems, newKind, newItems, conf, confItems, alt)
    /\ pre = fs
    /\ call = NoCall
    /\ ret = 0
    /\ out = <<>>
    /\ ncalls = 0
    /\ run = NoRun

\* one directory name of the listing of the show directory is worked on
SeasonDir ==
    /\ ncalls < MaxSeasonDirs
    /\ ncalls' = ncalls + 1
    /\ \E d \in {SnOld, SnNew, SnAlt}, dry_run \in BOOLEAN,
          failing \in {{}, {SnItemA}, {SnNew}, {SnSwap}} :
        /\ d \in iterdir(fs, Root)
        /\ LET r == process_dir(fs, Root, d, dry_run, failing)
           IN  /\ fs' = r.fs
               /\ pre' = fs
               /\ call' = [op |-> "season_dir", d |-> d, old |-> <<d>>,
                           dry_run |-> dry_run, failing |-> failing,
                           new |-> r.new, swap |-> r.swap, branch |-> r.branch]
               /\ ret' = r.renamed
               /\ out' = r.out
               /\ UNCHANGED <<ci, run>>

NextSeason == SeasonDir

SpecSeason == InitSeason /\ [][NextSeason]_vars

(***************************************************************************)
(* Claims about the merge of the season renamer                            *)
(***************************************************************************)
\* the subtree C is stored below p
Holds(f, p, C) == \A r \in DOMAIN C : (p \o r) \in DOMAIN f /\ f[p \o r] = C[r]

SnMerged == call.op = "season_dir" /\ call.branch = "merged"

\* every entry the destination held before the merge is still there, unchanged
SnKept == \A q \in Subtree(pre, call.new) : q \in DOMAIN fs /\ fs[q] = pre[q]

IsConflictName(c, item) ==
    \E n \in 0..Len(c) : c = conflict_name(stem(item), suffix(item), n)

\* the item is in the destination under its own name when that was free,
\* else in .plexleon_conflicts under a conflict name that was not in use
SnItemPlaced(item) ==
    IF ~exists(pre, Append(call.new, item))
    THEN Holds(fs, Append(call.new, item), Content(pre, Append(call.old, item)))
    ELSE \E c \in iterdir(fs, Append(call.new, CONFLICTS_DIR)) :
            /\ IsConflictName(c, item)
            /\ ~exists(pre, call.new \o <<CONFLICTS_DIR, c>>)
            /\ Holds(fs, call.new \o <<CONFLICTS_DIR, c>>,
                     Content(pre, Append(call.old, item)))

\* the item is still in the swap directory and an ERROR line names it
SnItemStuck(item) ==
    /\ Holds(fs, Append(call.swap, item), Content(pre, Append(call.old, item)))
    /\ \E i \in 1..Len(out) : out[i].tag = "ERROR" /\ out[i].a = Append(call.swap, item)

None == <<>>

TVDB_OPEN == <<"{", "t", "v", "d", "b", "-">>

\* TVDB_REGEX matches at i: "{tvdb-", one or more digits, "}", any case
TvdbAt(name, i) ==
    /\ i + 7 <= Len(name)
    /\ lower(SubSeq(name, i, i + 5)) = TVDB_OPEN
    /\ IsDigit(name[i + 6])
    /\ RunEnd(name, i + 6) < Len(name)
    /\ name[RunEnd(name, i + 6) + 1] = "}"

\* extract_tvdb_id(name): the digits of the leftmost match, or None
extract_tvdb_id(name) ==
    IF \E i \in 1..Len(name) : TvdbAt(name, i)
    THEN Bind(CHOOSE i \in 1..Len(name) :
                  TvdbAt(name, i) /\ \A j \in 1..(i - 1) : ~TvdbAt(name, j),
              LAMBDA i : SubSeq(name, i + 6, RunEnd(name, i + 6)))
    ELSE None

\* [sS](\d{2})[eE](\d{2}) matches at i
SeAt(name, i) ==
    /\ i + 5 <= Len(name)
    /\ name[i] \in {"s", "S"}
    /\ IsDigit(name[i + 1]) /\ IsDigit(name[i + 2])
    /\ name[i + 3] \in {"e", "E"}
    /\ IsDigit(name[i + 4]) /\ IsDigit(name[i + 5])

\* parse_season_episode(name): <<season, episode>> of the leftmost match
parse_season_episode(name) ==
    IF \E i \in 1..Len(name) : SeAt(name, i)
    THEN Bind(CHOOSE i \in 1..Len(name) :
                  SeAt(name, i) /\ \A j \in 1..(i - 1) : ~SeAt(name, j),
              LAMBDA i : <<int_of(SubSeq(name, i + 1, i + 2)),
                           int_of(SubSeq(name, i + 4, i + 5))>>)
    ELSE None

\* \d{1,2} at i, greedy: how many digits it takes (0 = no match)
Digits12(name, i) ==
    IF i > Len(name) \/ ~IsDigit(name[i]) THEN 0
    ELSE IF i + 1 <= Len(name) /\ IsDigit(name[i + 1]) THEN 2
    ELSE 1

\* the season digits of EPISODE_TAG_REGEX at i: one or two digits that are
\* followed by "e" (0 = no match)
SeasonDigits(name, i) ==
    IF i + 3 <= Len(name) /\ IsDigit(name[i + 1]) /\ IsDigit(name[i + 2])
       /\ lower_char(name[i + 3]) = "e" THEN 2
    ELSE IF i + 2 <= Len(name) /\ IsDigit(name[i + 1])
            /\ lower_char(name[i + 2]) = "e" THEN 1
    ELSE 0

\* EPISODE_TAG_REGEX matches at i
TagAt(name, i) ==
    /\ lower_char(name[i]) = "s"
    /\ SeasonDigits(name, i) > 0
    /\ Digits12(name, i + SeasonDigits(name, i) + 2) > 0

\* the groups of EPISODE_TAG_REGEX matching at i, as integers: season,
\* episode and, when "-e" and one or two digits follow, the second episode
TagGroups(name, i, sd, e1, ed) ==
    IF /\ e1 + ed + 1 <= Len(name)
       /\ name[e1 + ed] = "-"
       /\ lower_char(name[e1 + ed + 1]) = "e"
       /\ Digits12(name, e1 + ed + 2) > 0
    THEN <<int_of(SubSeq(name, i + 1, i + sd)),
           int_of(SubSeq(name, e1, e1 + ed - 1)),
           int_of(SubSeq(name, e1 + ed + 2,
                         e1 + ed + 1 + Digits12(name, e1 + ed + 2)))>>
    ELSE <<int_of(SubSeq(name, i + 1, i + sd)),
           int_of(SubSeq(name, e1, e1 + ed - 1))>>

\* parse_episode_tag(text): <<season, ep1>> or <<season, ep1, ep2>> of the
\* leftmost match, or None
parse_episode_tag(name) ==
    IF \E i \in 1..Len(name) : TagAt(name, i)
    THEN Bind(CHOOSE i \in 1..Len(name) :
                  TagAt(name, i) /\ \A j \in 1..(i - 1) : ~TagAt(name, j),
              LAMBDA i :
                  TagGroups(name, i, SeasonDigits(name, i),
                            i + SeasonDigits(name, i) + 2,
                            Digits12(name, i + SeasonDigits(name, i) + 2)))
    ELSE None

(***************************************************************************)
(* migrate (MigrateUtility.process)                                        *)
(***************************************************************************)
\* the media attributes of a file: its byte size and what the metadata
\* probe reads from it (None when the probe finds no resolution)
Media(size, res) == [size |-> size, res |-> res]

\* file_size(path): 0 unless path is a regular file
file_size(f, path) == IF is_file(f, path) THEN NodeAt(f, path).data.size ELSE 0

\* read_video_resolution(path): <<width, height>> or None
read_video_resolution(f, path) ==
    IF is_file(f, path) THEN NodeAt(f, path).data.res ELSE None

\* _get_res(path): the probe result, memoized per path for the run
get_res(f, cache, path) ==
    IF path \in DOMAIN cache THEN cache[path] ELSE read_video_resolution(f, path)

\* the memo after _get_res(path) returned res
remember(cache, path, res) ==
    [p \in DOMAIN cache \cup {path} |-> IF p \in DOMAIN cache THEN cache[p] ELSE res]

\* no component of q below root starts with a dot
NonHiddenBelow(root, q) ==
    \A k \in (Len(root) + 1)..Len(q) : ~startswith(q[k], <<".">>)

\* iter_nonhidden_entries(root): every directory and file below root that
\* is not hidden and not inside a hidden directory
iter_nonhidden_entries(f, root) ==
    {q \in Subtree(f, root) : q # root /\ NonHiddenBelow(root, q)}

\* the index of library-b: tvdb id -> the entries whose name carries it
build_index(f, lib_b) ==
    Bind(iter_nonhidden_entries(f, lib_b), LAMBDA entries :
        [id \in {extract_tvdb_id(Last(q)) : q \in entries} \ {None} |->
            {q \in entries : extract_tvdb_id(Last(q)) = id}])

\* b_index.get(tvdb, [])
index_get(b_index, tvdb) == IF tvdb \in DOMAIN b_index THEN b_index[tvdb] ELSE {}

\* a reference counterpart: a path, or none (None in the code)
Ref(p) == [found |-> TRUE, path |-> p]
NoRef == [found |-> FALSE, path |-> Root]

\* candidates[0] if candidates else None, candidates = the files among paths
first_file(f, paths) ==
    IF \E p \in paths : is_file(f, p)
    THEN Ref(CHOOSE p \in paths : is_file(f, p))
    ELSE NoRef

\* the (season, episode) keys a file name is indexed under by
\* _build_episode_index
episode_keys(fn) ==
    IF parse_season_episode(fn) # None THEN {parse_season_episode(fn)}
    ELSE Bind(parse_episode_tag(fn), LAMBDA parsed :
            IF parsed = None THEN {}
            ELSE IF Len(parsed) = 3
            THEN {<<parsed[1], parsed[2]>>, <<parsed[1], parsed[3]>>}
            ELSE {<<parsed[1], parsed[2]>>})

\* the non-hidden files os.walk finds below the directories in show_dirs
walk_files(f, show_dirs) ==
    {q \in DOMAIN f : /\ f[q].kind = "file"
                      /\ ~startswith(Last(q), <<".">>)
                      /\ \E d \in show_dirs : is_dir(f, d) /\ IsPrefix(d, q) /\ q # d}

\* _build_episode_index(show_dirs): (season, episode) -> path
build_episode_index(f, show_dirs) ==
    Bind(walk_files(f, show_dirs), LAMBDA files :
        [k \in UNION {episode_keys(Last(q)) : q \in files} |->
            CHOOSE q \in files : k \in episode_keys(Last(q))])

\* ep_idx.get((season_num, ep_num))
episode_get(ep_idx, se) == IF se \in DOMAIN ep_idx THEN Ref(ep_idx[se]) ELSE NoRef

BETTER_RESOLUTION == <<"b", "e", "t", "t", "e", "r", "-",
                       "r", "e", "s", "o", "l", "u", "t", "i", "o", "n">>
GREATER_FILESIZE == <<"g", "r", "e", "a", "t", "e", "r", "-",
                      "f", "i", "l", "e", "s", "i", "z", "e">>
TO_DELETE == <<"t", "o", "-", "d", "e", "l", "e", "t", "e">>

\* the resolution comparison reading an unknown resolution as 0x0
better_resolution_unknown_as_zero(res_a, res_b) ==
    (IF res_a = None THEN 0 ELSE res_a[1] * res_a[2])
        > (IF res_b = None THEN 0 ELSE res_b[1] * res_b[2])

\* better_resolution: both resolutions read and more pixels in the source
better_resolution(res_a, res_b) ==
    /\ res_a # None
    /\ res_b # None
    /\ res_a[1] * res_a[2] > res_b[1] * res_b[2]

\* the category (and reason) of an item
decide(res_a, res_b, size_a, size_b) ==
    IF better_resolution(res_a, res_b) THEN BETTER_RESOLUTION
    ELSE IF size_a > size_b THEN GREATER_FILESIZE
    ELSE TO_DELETE

\* what the DECISION line of an item reports
Decision(ref, res_a, res_b, size_a, size_b) ==
    [ref |-> ref, res_a |-> res_a, res_b |-> res_b,
     size_a |-> size_a, size_b |-> size_b,
     reason |-> decide(res_a, res_b, size_a, size_b)]

\* the comparison of src with its reference counterpart
compare(f, cache, src, ref, prefer_resolution) ==
    IF prefer_resolution /\ ref.found
    THEN Bind(get_res(f, cache, src), LAMBDA res_a :
            Decision(ref, res_a, get_res(f, remember(cache, src, res_a), ref.path),
                     file_size(f, src), file_size(f, ref.path)))
    ELSE Decision(ref, None, None, file_size(f, src),
                  IF ref.found THEN file_size(f, ref.path) ELSE 0)

\* the state of a run while library-a is worked through
MgAcc(f, o, moved, skipped, cache, raised) ==
    [fs |-> f, out |-> o, moved |-> moved, skipped |-> skipped,
     cache |-> cache, raised |-> raised]

\* the memo after the comparison dc of src
cache_after(cache, src, dc, prefer_resolution) ==
    IF prefer_resolution /\ dc.ref.found
    THEN remember(remember(cache, src, dc.res_a), dc.ref.path, dc.res_b)
    ELSE cache

\* the same counting an item only when it is really moved
relocate_counting_real_moves(acc, src, dc, dest, opts) ==
    Bind(move_file(acc.fs, src, dest, opts.overwrite, opts.dry_run), LAMBDA mv :
        MgAcc(mv.fs, acc.out \o <<Line("DECISION", src, dc)>> \o mv.out,
              IF mv.raised \/ opts.dry_run THEN acc.moved ELSE acc.moved + 1, acc.skipped,
              cache_after(acc.cache, src, dc, opts.prefer_resolution), mv.raised))

\* DECISION line, move_file and moved += 1 for one item
relocate(acc, src, dc, dest, opts) ==
    Bind(move_file(acc.fs, src, dest, opts.overwrite, opts.dry_run), LAMBDA mv :
        MgAcc(mv.fs, acc.out \o <<Line("DECISION", src, dc)>> \o mv.out,
              IF mv.raised THEN acc.moved ELSE acc.moved + 1, acc.skipped,
              cache_after(acc.cache, src, dc, opts.prefer_resolution), mv.raised))

\* one movie or episode: compare, decide, report and move to
\* lib_c/<category>/dest_rel
reconcile(acc, src, ref, dest_rel, opts, lib_c) ==
    Bind(compare(acc.fs, acc.cache, src, ref, opts.prefer_resolution), LAMBDA dc :
        relocate(acc, src, dc, lib_c \o <<dc.reason>> \o dest_rel, opts))

\* the destination of an episode keeping only the file name
episode_dest_rel_flat(entry, src_ep) == <<Last(entry), Last(src_ep)>>

\* entry.name / src_ep.relative_to(entry)
episode_dest_rel(entry, src_ep) ==
    <<Last(entry)>> \o SubSeq(src_ep, Len(entry) + 1, Len(src_ep))

\* p before q in the walk of a show: the files of a directory before those
\* of its subdirectories, names in sorted order
path_less(p, q) ==
    \/ Len(p) < Len(q)
    \/ /\ Len(p) = Len(q)
       /\ \E k \in 1..Len(p) : /\ SubSeq(p, 1, k - 1) = SubSeq(q, 1, k - 1)
                                /\ name_less(p[k], q[k])

\* one file of a show: skipped when its name has no episode tag
migrate_episode(acc, entry, src_ep, ep_idx, opts, lib_c) ==
    Bind(parse_season_episode(Last(src_ep)), LAMBDA se :
        IF se = None
        THEN MgAcc(acc.fs, acc.out, acc.moved, acc.skipped + 1, acc.cache, FALSE)
        ELSE reconcile(acc, src_ep, episode_get(ep_idx, se),
                       episode_dest_rel(entry, src_ep), opts, lib_c))

RECURSIVE migrate_episodes(_, _, _, _, _, _)
\* the walk of a show directory; an exception of move_file ends it
migrate_episodes(acc, entry, files, ep_idx, opts, lib_c) ==
    IF files = {} \/ acc.raised THEN acc
    ELSE Bind(CHOOSE p \in files : \A q \in files \ {p} : path_less(p, q), LAMBDA src_ep :
            migrate_episodes(migrate_episode(acc, entry, src_ep, ep_idx, opts, lib_c),
                             entry, files \ {src_ep}, ep_idx, opts, lib_c))

\* the membership test treating every id as present in library-b
in_reference_always(tvdb, b_index) == TRUE

\* tvdb in b_ids
in_reference(tvdb, b_index) == tvdb \in DOMAIN b_index

\* the body of "for entry in lib_a.iterdir()"
migrate_entry(acc, entry, b_index, opts, lib_c) ==
    IF startswith(Last(entry), <<".">>) THEN acc
    ELSE Bind(extract_tvdb_id(Last(entry)), LAMBDA tvdb :
        IF tvdb = None \/ ~in_reference(tvdb, b_index)
        THEN MgAcc(acc.fs, acc.out, acc.moved, acc.skipped + 1, acc.cache, FALSE)
        ELSE IF is_file(acc.fs, entry)
        THEN reconcile(acc, entry, first_file(acc.fs, index_get(b_index, tvdb)),
                       <<Last(entry)>>, opts, lib_c)
        ELSE migrate_episodes(acc, entry, walk_files(acc.fs, {entry}),
                              build_episode_index(acc.fs,
                                  {p \in index_get(b_index, tvdb) : is_dir(acc.fs, p)}),
                              opts, lib_c))

(***************************************************************************)
(* Specification of a migrate run: library-a holds a movie, a show, an     *)
(* entry whose id library-b does not index and an entry without id or a    *)
(* hidden one; library-b holds the show, the movie in one of several       *)
(* layouts and a hidden file; library-c is empty or already holds the      *)
(* movie in every category (and then the fourth entry is the hidden one),  *)
(* or is a regular file.  Next to the run, a second run of process() on    *)
(* the same starting libraries with dry_run negated works on the same      *)
(* entries (run.twin).                                                     *)
(***************************************************************************)
LIB_A == <<<<"a">>>>
LIB_B == <<<<"b">>>>
LIB_C == <<<<"c">>>>

MgMovie == <<"A", "{", "t", "v", "d", "b", "-", "1", "}", ".", "m">>
MgRefMovie == <<"B", "{", "T", "V", "D", "B", "-", "1", "}", ".", "m">>
MgBucket == <<"B">>
MgShow == <<"S", "{", "t", "v", "d", "b", "-", "2", "}">>
MgRefShow == <<"R", "{", "t", "v", "d", "b", "-", "2", "}">>
MgUnknown == <<"U", "{", "t", "v", "d", "b", "-", "3", "}", ".", "m">>
MgHiddenRef == <<".", "B", "{", "t", "v", "d", "b", "-", "3", "}">>
MgNoId == <<"x", ".", "m">>
MgHidden == <<".", "z", "{", "t", "v", "d", "b", "-", "1", "}">>
MgSeason == <<"t">>
MgEp1 == <<"s", "0", "1", "e", "0", "1", ".", "m">>
MgEp2 == <<"s", "0", "1", "e", "0", "2", ".", "m">>
MgRefEp1 == <<"S", "1", "E", "1", ".", "m">>
MgRefEp3 == <<"s", "0", "1", "e", "0", "3", ".", "m">>
MgUntagged == <<"n", ".", "t">>
MgHiddenFile == <<".", "h">>
MgBucketed == <<"C", "{", "t", "v", "d", "b", "-", "1", "}", ".", "m">>

\* the media attributes of the source files and of the reference files
MgPairs == {<<Media(2, <<2, 1>>), Media(3, <<1, 1>>)>>,
            <<Media(2, <<1, 1>>), Media(1, <<2, 1>>)>>,
            <<Media(1, <<1, 1>>), Media(1, <<1, 1>>)>>,
            <<Media(1, <<2, 1>>), Media(1, None)>>,
            <<Media(2, None), Media(1, <<1, 1>>)>>,
            <<Media(0, None), Media(0, None)>>}

MgLibA(qa, extra) ==
    {<<LIB_A, DirNode>>,
     <<Append(LIB_A, MgMovie), FileNode(qa)>>,
     <<Append(LIB_A, MgUnknown), FileNode(qa)>>,
     <<Append(LIB_A, MgShow), DirNode>>,
     <<LIB_A \o <<MgShow, MgSeason>>, DirNode>>,
     <<LIB_A \o <<MgShow, MgSeason, MgEp1>>, FileNode(qa)>>,
     <<LIB_A \o <<MgShow, MgEp2>>, FileNode(qa)>>,
     <<LIB_A \o <<MgShow, MgUntagged>>, FileNode(qa)>>,
     <<LIB_A \o <<MgShow, MgHiddenFile>>, FileNode(qa)>>}
    \cup (CASE extra = "hidden" -> {<<Append(LIB_A, MgHidden), FileNode(qa)>>}
            [] extra = "bucket" -> {<<Append(LIB_A, MgBucket), DirNode>>,
                                    <<LIB_A \o <<MgBucket, MgBucketed>>, FileNode(qa)>>}
            [] OTHER -> {<<Append(LIB_A, MgNoId), FileNode(qa)>>})

MgLibB(qb, bform) ==
    IF bform = "nolib" THEN {}
    ELSE {<<LIB_B, DirNode>>,
          <<Append(LIB_B, MgRefShow), DirNode>>,
          <<LIB_B \o <<MgRefShow, MgRefEp1>>, FileNode(qb)>>,
          <<LIB_B \o <<MgRefShow, MgRefEp3>>, FileNode(qb)>>,
          <<Append(LIB_B, MgHiddenRef), FileNode(qb)>>}
         \cup (CASE bform = "absent" -> {}
                 [] bform = "top" -> {<<Append(LIB_B, MgRefMovie), FileNode(qb)>>}
                 [] bform = "bucket" -> {<<Append(LIB_B, MgBucket), DirNode>>,
                                         <<LIB_B \o <<MgBucket, MgRefMovie>>, FileNode(qb)>>}
                 [] bform = "dir" -> {<<Append(LIB_B, MgRefMovie), DirNode>>})

MgLibC(cpre) ==
    IF ~cpre THEN {}
    ELSE {<<LIB_C, DirNode>>}
         \cup {<<Append(LIB_C, cat), DirNode>> :
                  cat \in {BETTER_RESOLUTION, GREATER_FILESIZE, TO_DELETE}}
         \cup {<<LIB_C \o <<cat, MgMovie>>, FileNode(Media(9, None))>> :
                  cat \in {BETTER_RESOLUTION, GREATER_FILESIZE, TO_DELETE}}

\* library-c is a regular file: no destination can be created below it
MgBlockedC == {<<LIB_C, FileNode(Media(9, None))>>}

InitMigrate ==
    /\ ci = FALSE
    /\ \E pair \in MgPairs, bform \in {"nolib", "absent", "top", "bucket", "dir"},
          cform \in {"absent", "full", "file"} :
          fs = FsOf({<<Root, DirNode>>}
                    \cup MgLibA(pair[1], CASE cform = "full" -> "hidden"
                                            [] cform = "absent" /\ bform = "bucket" -> "bucket"
                                            [] OTHER -> "noid")
                    \cup MgLibB(pair[2], bform)
                    \cup (IF cform = "file" THEN MgBlockedC ELSE MgLibC(cform = "full")))
    /\ pre = fs
    /\ call = NoCall
    /\ ret = <<0, 0>>
    /\ out = <<>>
    /\ ncalls = 0
    /\ run = NoRun

\* the same iteration in the run with dry_run negated, unless that run has
\* been ended by an exception
twin_entry(twin, entry, b_index, opts, lib_c) ==
    IF twin.raised THEN [twin EXCEPT !.out = <<>>]
    ELSE migrate_entry([twin EXCEPT !.out = <<>>], entry, b_index,
                       [opts EXCEPT !.dry_run = ~opts.dry_run], lib_c)

\* process() up to the loop: the options, the library checks, the index of
\* library-b and the listing of library-a
MigrateStart ==
    /\ run.pc = "idle"
    /\ \E overwrite \in BOOLEAN, dry_run \in BOOLEAN, prefer_resolution \in BOOLEAN :
        /\ call' = [op |-> "migrate_start",
                    opts |-> [overwrite |-> overwrite, dry_run |-> dry_run,
                              prefer_resolution |-> prefer_resolution]]
        /\ IF ~is_dir(fs, LIB_A) \/ ~is_dir(fs, LIB_B)
           THEN /\ run' = [pc |-> "done"]
                /\ out' = <<Line("ERROR", LIB_A, LIB_B)>>
           ELSE /\ run' = [pc |-> "loop",
                           opts |-> [overwrite |-> overwrite, dry_run |-> dry_run,
                                     prefer_resolution |-> prefer_resolution],
                           b_index |-> build_index(fs, LIB_B),
                           pending |-> {Append(LIB_A, n) : n \in iterdir(fs, LIB_A)},
                           moved |-> 0, skipped |-> 0, cache |-> <<>>,
                           start |-> fs,
                           twin |-> MgAcc(fs, <<>>, 0, 0, <<>>, FALSE)]
                /\ out' = <<>>
    /\ pre' = fs
    /\ ret' = <<0, 0>>
    /\ UNCHANGED <<fs, ci, ncalls>>

\* one iteration of "for entry in lib_a.iterdir()", in any listing order;
\* an exception of move_file ends the run
MigrateEntry ==
    /\ run.pc = "loop"
    /\ \E entry \in run.pending :
        LET acc == migrate_entry(MgAcc(fs, <<>>, run.moved, run.skipped, run.cache, FALSE),
                                 entry, run.b_index, run.opts, LIB_C)
        IN  /\ fs' = acc.fs
            /\ out' = acc.out
            /\ run' = [run EXCEPT !.pc = IF acc.raised THEN "raised" ELSE "loop",
                                  !.pending = run.pending \ {entry},
                                  !.moved = acc.moved,
                                  !.skipped = acc.skipped,
                                  !.cache = acc.cache,
                                  !.twin = twin_entry(run.twin, entry, run.b_index,
                                                      run.opts, LIB_C)]
            /\ call' = [op |-> "migrate_entry", entry |-> entry, opts |-> run.opts,
                        moved |-> run.moved, skipped |-> run.skipped]
    /\ pre' = fs
    /\ UNCHANGED <<ci, ret, ncalls>>

\* process() after the loop: return moved, skipped
MigrateReturn ==
    /\ run.pc = "loop"
    /\ run.pending = {}
    /\ run' = [run EXCEPT !.pc = "done"]
    /\ ret' = <<run.moved, run.skipped>>
    /\ call' = [op |-> "migrate_return"]
    /\ out' = <<>>
    /\ pre' = fs
    /\ UNCHANGED <<fs, ci, ncalls>>

NextMigrate == MigrateStart \/ MigrateEntry \/ MigrateReturn

SpecMigrate == InitMigrate /\ [][NextMigrate]_vars

(***************************************************************************)
(* Claims about migrate                                                    *)
(***************************************************************************)
\* an iteration of the loop has worked on a non-hidden entry and returned
MgEntryDone ==
    /\ call.op = "migrate_entry"
    /\ run.pc # "raised"
    /\ ~startswith(Last(call.entry), <<".">>)

\* the DECISION lines of the last iteration
MgDecisions == {i \in 1..Len(out) : out[i].tag = "DECISION"}

\* what the probe reads from the file at p in the filesystem before the step
MgProbe(p) == pre[p].data.res

\* the three-way priority restated: resolution when both are known, then size
MgThreeWay(d) ==
    IF d.res_a # None /\ d.res_b # None
       /\ d.res_a[1] * d.res_a[2] > d.res_b[1] * d.res_b[2]
    THEN BETTER_RESOLUTION
    ELSE IF d.size_a > d.size_b THEN GREATER_FILESIZE
    ELSE TO_DELETE

\* C8: every DECISION follows the three-way priority on the values it
\* reports; the sizes are those of the source and of the reference file (0
\* without a reference match); a resolution is either the one the probe
\* reads from the file or unknown, it is unknown exactly when resolutions
\* are not compared (no reference match, or prefer_resolution off) or the
\* probe finds none, and an unknown resolution never wins the comparison.
C8_DecisionIsThreeWay ==
    MgEntryDone =>
        \A i \in MgDecisions :
            /\ out[i].b.reason = MgThreeWay(out[i].b)
            /\ out[i].b.size_a = pre[out[i].a].data.size
            /\ out[i].b.size_b = IF out[i].b.ref.found
                                 THEN pre[out[i].b.ref.path].data.size ELSE 0
            /\ out[i].b.res_a = IF call.opts.prefer_resolution /\ out[i].b.ref.found
                                THEN MgProbe(out[i].a) ELSE None
            /\ out[i].b.res_b = IF call.opts.prefer_resolution /\ out[i].b.ref.found
                                THEN MgProbe(out[i].b.ref.path) ELSE None
            /\ ((out[i].b.res_a = None \/ out[i].b.res_b = None)
                    => out[i].b.reason # BETTER_RESOLUTION)

\* C8 witness: a smaller source file with more pixels than its reference was
\* decided better-resolution, and an item without reference match was
\* decided by its size against 0.
C8_Witness ==
    /\ MgEntryDone
    /\ \E i \in MgDecisions :
          /\ out[i].b.reason = BETTER_RESOLUTION
          /\ out[i].b.size_a < out[i].b.size_b
    /\ \E i \in MgDecisions :
          /\ ~out[i].b.ref.found
          /\ out[i].b.reason = GREATER_FILESIZE

\* the id of the entry of the last iteration
MgEntryId == extract_tvdb_id(Last(call.entry))

\* C9: a (non-hidden) entry of library-a whose id is not in the index of
\* library-b prints no DECISION or MOVE line, is not moved (the filesystem
\* is unchanged), leaves the moved count as it was and adds one to the
\* skipped count.
C9_UnknownIdIsSkipped ==
    (MgEntryDone /\ MgEntryId # None /\ MgEntryId \notin DOMAIN run.b_index)
    => (/\ out = <<>>
        /\ fs = pre
        /\ run.moved = call.moved
        /\ run.skipped = call.skipped + 1)

\* C9 witness: the entry carrying an id that library-b has only on a hidden
\* file has been skipped after another entry was moved.
C9_Witness ==
    /\ MgEntryDone
    /\ call.entry = Append(LIB_A, MgUnknown)
    /\ MgEntryId \notin DOMAIN run.b_index
    /\ exists(fs, Append(LIB_B, MgHiddenRef))
    /\ call.moved > 0
    /\ run.skipped = call.skipped + 1

\* the last iteration worked on a show directory whose id is in library-b
MgShowDone ==
    /\ MgEntryDone
    /\ is_dir(pre, call.entry)
    /\ MgEntryId # None
    /\ MgEntryId \in DOMAIN run.b_index

\* the non-hidden files of the show before the step
MgShowFiles ==
    {q \in Subtree(pre, call.entry) :
        pre[q].kind = "file" /\ ~startswith(Last(q), <<".">>)}

\* <lib_c>/<category>/<D.name>/R for the file q = D/R
MgShowDest(q, category) ==
    LIB_C \o <<category, Last(call.entry)>>
          \o SubSeq(q, Len(call.entry) + 1, Len(q))

\* C10: after the loop iteration of a show directory D whose id is in
\* library-b, D and its subdirectories are still directories; every
\* non-hidden file D/R whose name has an episode tag has a DECISION line
\* followed by a MOVE or SKIP exists line for <lib_c>/<category>/<D.name>/R,
\* and after a MOVE in a real run the file is there and no longer in D; the
\* files without tag are in place, unchanged, without DECISION line, and the
\* skipped count has grown by their number.
C10_ShowIsMovedPerEpisode ==
    MgShowDone =>
        /\ \A q \in Subtree(pre, call.entry) :
              pre[q].kind = "dir" => (q \in DOMAIN fs /\ fs[q].kind = "dir")
        /\ \A q \in MgShowFiles :
              IF parse_season_episode(Last(q)) # None
              THEN \E i \in MgDecisions :
                      /\ out[i].a = q
                      /\ i < Len(out)
                      /\ out[i + 1].tag \in {"MOVE", "SKIP exists"}
                      /\ out[i + 1].b = MgShowDest(q, out[i].b.reason)
                      /\ (out[i + 1].tag = "MOVE" /\ ~call.opts.dry_run)
                            => (/\ q \notin DOMAIN fs
                                /\ NodeAt(fs, MgShowDest(q, out[i].b.reason)) = pre[q])
              ELSE /\ q \in DOMAIN fs /\ fs[q] = pre[q]
                   /\ \A i \in MgDecisions : out[i].a # q
        /\ run.skipped = call.skipped
              + Cardinality({q \in MgShowFiles : parse_season_episode(Last(q)) = None})
        /\ run.moved = call.moved
              + Cardinality({q \in MgShowFiles : parse_season_episode(Last(q)) # None})

\* C10 witness: in a real run the episode in the season folder of the show
\* is under <lib_c>/<category>/<show>/<season folder>/ and the file without
\* tag is still in the show.
C10_Witness ==
    /\ MgShowDone
    /\ ~call.opts.dry_run
    /\ \E category \in {BETTER_RESOLUTION, GREATER_FILESIZE, TO_DELETE} :
          is_file(fs, LIB_C \o <<category, MgShow, MgSeason, MgEp1>>)
    /\ ~exists(fs, LIB_A \o <<MgShow, MgSeason, MgEp1>>)
    /\ is_dir(fs, LIB_A \o <<MgShow, MgSeason>>)
    /\ is_file(fs, LIB_A \o <<MgShow, MgUntagged>>)

(***************************************************************************)
(* prepare: names of show folders and of loose episode files               *)
(***************************************************************************)
\* the literal lit (given in lower case) is at i, in any case
LitAt(name, i, lit) ==
    /\ i >= 1
    /\ i + Len(lit) - 1 <= Len(name)
    /\ lower(SubSeq(name, i, i + Len(lit) - 1)) = lit

\* the last index of the run of blanks that starts at i
SpacesEnd(name, i) == CHOOSE j \in i..Len(name) :
                          /\ \A k \in i..j : name[k] = " "
                          /\ (j = Len(name) \/ name[j + 1] # " ")

\* \s+(\d+) at i: where the digits start (0 = no match)
BlankThenDigits(name, i) ==
    IF i > Len(name) \/ name[i] # " " THEN 0
    ELSE Bind(SpacesEnd(name, i) + 1, LAMBDA d :
            IF d <= Len(name) /\ IsDigit(name[d]) THEN d ELSE 0)

\* \D+<second>\s+(\d+) after the digits ending at e1: where the digits of
\* the second number start (0 = no match)
GermanSecond(name, e1, second) ==
    IF \E j \in (e1 + 2)..Len(name) :
          /\ \A k \in (e1 + 1)..(j - 1) : ~IsDigit(name[k])
          /\ LitAt(name, j, second)
          /\ BlankThenDigits(name, j + Len(second)) > 0
    THEN BlankThenDigits(name,
             (CHOOSE j \in (e1 + 2)..Len(name) :
                 /\ \A k \in (e1 + 1)..(j - 1) : ~IsDigit(name[k])
                 /\ LitAt(name, j, second)
                 /\ BlankThenDigits(name, j + Len(second)) > 0) + Len(second))
    ELSE 0

\* <first>\s+(\d+)\D+<second>\s+(\d+) matches at i
GermanAt(name, i, first, second) ==
    /\ LitAt(name, i, first)
    /\ BlankThenDigits(name, i + Len(first)) > 0
    /\ GermanSecond(name, RunEnd(name, BlankThenDigits(name, i + Len(first))), second) > 0

\* the two numbers of the leftmost match of the pattern, or None
german_groups(name, first, second) ==
    IF \E i \in 1..Len(name) : GermanAt(name, i, first, second)
    THEN Bind(CHOOSE i \in 1..Len(name) :
                  /\ GermanAt(name, i, first, second)
                  /\ \A j \in 1..(i - 1) : ~GermanAt(name, j, first, second),
         LAMBDA i :
         Bind(BlankThenDigits(name, i + Len(first)), LAMBDA d1 :
         Bind(GermanSecond(name, RunEnd(name, d1), second), LAMBDA d2 :
            <<int_of(SubSeq(name, d1, RunEnd(name, d1))),
              int_of(SubSeq(name, d2, RunEnd(name, d2)))>>)))
    ELSE None

EPISODE_WORD == <<"e", "p", "i", "s", "o", "d", "e">>
STAFFEL_WORD == <<"s", "t", "a", "f", "f", "e", "l">>

\* GERMAN_EP_FIRST.search(name): <<episode, season>> or None
GERMAN_EP_FIRST(name) == german_groups(name, EPISODE_WORD, STAFFEL_WORD)

\* GERMAN_SEASON_FIRST.search(name): <<season, episode>> or None
GERMAN_SEASON_FIRST(name) == german_groups(name, STAFFEL_WORD, EPISODE_WORD)

\* _parse_season_episode_from_name(name): <<season, episode>> or None
parse_season_episode_from_name(name) ==
    Bind(parse_episode_tag(name), LAMBDA tag :
        IF tag # None THEN <<tag[1], tag[2]>>
        ELSE Bind(GERMAN_EP_FIRST(name), LAMBDA m :
                IF m # None THEN <<m[2], m[1]>>
                ELSE GERMAN_SEASON_FIRST(name)))

\* SHOW_DIR_REGEX matches the whole name with the year starting at y:
\* ".+ (dddd) {tvdb-d+}", the token in lower case only
ShowNameAt(name, y) ==
    /\ y >= 3
    /\ y + 14 <= Len(name)
    /\ name[y - 1] = " "
    /\ name[y] = "("
    /\ \A k \in (y + 1)..(y + 4) : IsDigit(name[k])
    /\ SubSeq(name, y + 5, y + 12) = <<")", " ">> \o TVDB_OPEN
    /\ IsDigit(name[y + 13])
    /\ RunEnd(name, y + 13) = Len(name) - 1
    /\ name[Len(name)] = "}"

\* SHOW_DIR_REGEX.match(name) is not None
is_show_name(name) == \E y \in 1..Len(name) : ShowNameAt(name, y)

\* re.search(r"\{tvdb-\d+\}", name) is not None: the token in lower case only
has_tvdb_token(name) ==
    \E i \in 1..Len(name) : TvdbAt(name, i) /\ SubSeq(name, i, i + 5) = TVDB_OPEN

\* TVDB_SUFFIX_REGEX matches at i: blanks, the token in any case, blanks
SuffixTokenAt(name, i) ==
    \E j \in i..Len(name) : (\A k \in i..(j - 1) : name[k] = " ") /\ TvdbAt(name, j)

\* the first index after the match of TVDB_SUFFIX_REGEX that starts at i
SuffixTokenEnd(name, i) ==
    Bind(CHOOSE j \in i..Len(name) : (\A k \in i..(j - 1) : name[k] = " ") /\ TvdbAt(name, j),
         LAMBDA j :
         Bind(RunEnd(name, j + 6) + 2, LAMBDA e :
            IF e <= Len(name) /\ name[e] = " " THEN SpacesEnd(name, e) + 1 ELSE e))

RECURSIVE suffix_sub(_, _)
\* TVDB_SUFFIX_REGEX.sub("", name) from index i on
suffix_sub(name, i) ==
    IF i > Len(name) THEN <<>>
    ELSE IF SuffixTokenAt(name, i) THEN suffix_sub(name, SuffixTokenEnd(name, i))
    ELSE <<name[i]>> \o suffix_sub(name, i + 1)

RECURSIVE strip(_)
\* str.strip()
strip(s) == IF s = <<>> THEN s
            ELSE IF s[1] = " " THEN strip(SubSeq(s, 2, Len(s)))
            ELSE IF s[Len(s)] = " " THEN strip(SubSeq(s, 1, Len(s) - 1))
            ELSE s

\* strip_tvdb_suffix(name)
strip_tvdb_suffix(name) == strip(suffix_sub(name, 1))

MEDIA_EXTS == {<<"m", "p", "4">>, <<"m", "k", "v">>, <<"a", "v", "i">>,
               <<"m", "o", "v">>, <<"m", "4", "v">>, <<"f", "l", "v">>,
               <<"w", "m", "v">>, <<"m", "p", "g">>, <<"m", "p", "e", "g">>}

RECURSIVE lstrip_dots(_)
\* str.lstrip('.')
lstrip_dots(s) == IF s # <<>> /\ s[1] = "." THEN lstrip_dots(SubSeq(s, 2, Len(s))) ELSE s

\* entry.suffix.lower().lstrip('.') in MEDIA_EXTS
is_media_name(name) == lstrip_dots(lower(suffix(name))) \in MEDIA_EXTS

(***************************************************************************)
(* prepare: _validate_show and process                                     *)
(***************************************************************************)
RECURSIVE sorted_names(_)
\* sorted(S) for the names of one directory
sorted_names(S) ==
    IF S = {} THEN <<>>
    ELSE Bind(MinName(S), LAMBDA n : <<n>> \o sorted_names(S \ {n}))

\* the loose media files of show_dir in sorted order: not a directory, not
\* hidden, with a media extension
loose_media(f, show_dir) ==
    sorted_names({n \in iterdir(f, show_dir) :
                     /\ ~is_dir(f, Append(show_dir, n))
                     /\ ~startswith(n, <<".">>)
                     /\ is_media_name(n)})

MSG_MISSING == "ERROR: missing tvdb id"
MSG_DUPLICATE == "ERROR: duplicate episode"
MSG_UNPARSED == "WARN: could not parse"

\* m.startswith("ERROR:")
is_error_msg(m) == m.tag \in {MSG_MISSING, MSG_DUPLICATE}

\* the WARN messages: one per file whose name does not parse
warn_msgs(files) ==
    Bind(SelectSeq(files, LAMBDA n : parse_season_episode_from_name(n) = None),
         LAMBDA unparsed :
            [i \in 1..Len(unparsed) |-> Line(MSG_UNPARSED, <<unparsed[i]>>, <<unparsed[i]>>)])

RECURSIVE count_keys(_, _)
\* the keys of counts in the order of their first insertion
count_keys(files, seen) ==
    IF files = <<>> THEN <<>>
    ELSE Bind(parse_season_episode_from_name(Head(files)), LAMBDA k :
            IF k = None \/ k \in seen THEN count_keys(Tail(files), seen)
            ELSE <<k>> \o count_keys(Tail(files), seen \cup {k}))

\* counts[(season, ep)]
count_files(files, k) ==
    SelectSeq(files, LAMBDA n : parse_season_episode_from_name(n) = k)

\* the test for a duplicate taking every episode for one
is_duplicate_always(claimants) == Len(claimants) > 0

\* len(files) > 1
is_duplicate(claimants) == Len(claimants) > 1

\* the ERROR messages of the episodes claimed by more than one file
duplicate_msgs(files) ==
    Bind(SelectSeq(count_keys(files, {}), LAMBDA k : is_duplicate(count_files(files, k))),
         LAMBDA dups :
            [i \in 1..Len(dups) |-> Line(MSG_DUPLICATE, dups[i], count_files(files, dups[i]))])

\* the messages of _validate_show(show_dir)
validate_msgs(f, show_dir) ==
    (IF has_tvdb_token(Last(show_dir))
     THEN <<>> ELSE <<Line(MSG_MISSING, show_dir, show_dir)>>)
    \o warn_msgs(loose_media(f, show_dir))
    \o duplicate_msgs(loose_media(f, show_dir))

\* _validate_show(show_dir): (is_valid, messages)
validate_show(f, show_dir) ==
    Bind(validate_msgs(f, show_dir), LAMBDA msgs :
        [valid |-> \A i \in 1..Len(msgs) : ~is_error_msg(msgs[i]), msgs |-> msgs])

\* the state of process() while a show directory is worked on
PpAcc(f, o, processed, raised) ==
    [fs |-> f, out |-> o, processed |-> processed, raised |-> raised]

\* f"{show_title} - e{episode:02d}s{season:02d}{entry.suffix.lower()}"
target_name(show_title, se, name) ==
    show_title \o <<" ", "-", " ", "e">> \o format02(se[2])
               \o <<"s">> \o format02(se[1]) \o lower(suffix(name))

\* the season directory made sure of: printed in a dry run, created in a
\* real one (an error of mkdir is not caught)
ensure_season_dir(acc, season_dir, dry_run) ==
    IF dry_run
    THEN IF exists(acc.fs, season_dir) THEN acc
         ELSE PpAcc(acc.fs, Append(acc.out, Line("MKDIR", season_dir, season_dir)),
                    acc.processed, FALSE)
    ELSE Bind(mkdir_parents(acc.fs, season_dir), LAMBDA mk :
            PpAcc(mk.fs, acc.out, acc.processed, ~mk.ok))

\* the end of the loop body: two-step rename for a case-only change in
\* place, SKIP when the target exists, else the move
place_file(acc, entry, target_path, dry_run, fail) ==
    IF Parent(entry) = Parent(target_path) /\ lower(Last(entry)) = lower(Last(target_path))
    THEN Bind(two_step_case_rename(acc.fs, entry, target_path, dry_run, fail, FALSE, FALSE),
              LAMBDA r : PpAcc(r.fs, acc.out \o r.out,
                               IF r.ret THEN acc.processed + 1 ELSE acc.processed, FALSE))
    ELSE IF exists(acc.fs, target_path) /\ target_path # entry
    THEN PpAcc(acc.fs, Append(acc.out, Line("SKIP exists", target_path, target_path)),
               acc.processed, FALSE)
    ELSE IF dry_run
    THEN PpAcc(acc.fs, Append(acc.out, Line("MOVE+RENAME", entry, target_path)),
               acc.processed + 1, FALSE)
    ELSE Bind(rename(acc.fs, entry, target_path, fail), LAMBDA r :
            IF r.ok THEN PpAcc(r.fs, acc.out, acc.processed + 1, FALSE)
            ELSE PpAcc(acc.fs, Append(acc.out, Line("ERROR", entry, target_path)),
                       acc.processed, FALSE))

\* the body of "for entry in sorted(show_dir.iterdir())"
prepare_entry(acc, show_dir, show_title, name, dry_run, fail) ==
    IF \/ is_dir(acc.fs, Append(show_dir, name))
       \/ startswith(name, <<".">>)
       \/ ~is_media_name(name)
       \/ parse_season_episode_from_name(name) = None
    THEN acc
    ELSE Bind(parse_season_episode_from_name(name), LAMBDA se :
         Bind(Append(show_dir, season_name(se[1])), LAMBDA season_dir :
         Bind(Append(season_dir, target_name(show_title, se, name)), LAMBDA target_path :
            IF Append(show_dir, name) = target_path THEN acc
            ELSE Bind(ensure_season_dir(acc, season_dir, dry_run), LAMBDA made :
                    IF made.raised THEN made
                    ELSE place_file(made, Append(show_dir, name), target_path,
                                    dry_run, fail)))))

RECURSIVE prepare_entries(_, _, _, _, _, _)
\* the loop over the entries of a show directory; failing = the names whose
\* rename raises OSError for an outside reason
prepare_entries(acc, show_dir, show_title, names, dry_run, failing) ==
    IF names = <<>> \/ acc.raised THEN acc
    ELSE prepare_entries(prepare_entry(acc, show_dir, show_title, Head(names), dry_run,
                                       Head(names) \in failing),
                         show_dir, show_title, Tail(names), dry_run, failing)

\* the test of process() that never skips a show
skip_show_never(report) == FALSE

\* "if not valid": the show is skipped
skip_show(report) == ~report.valid

\* the body of "for show_dir in _iter_show_dirs(root)"
prepare_show(f, show_dir, processed, dry_run, failing) ==
    Bind(validate_show(f, show_dir), LAMBDA report :
        IF skip_show(report)
        THEN PpAcc(f, Append(report.msgs, Line("SKIP show", show_dir, show_dir)),
                   processed, FALSE)
        ELSE prepare_entries(PpAcc(f, report.msgs, processed, FALSE), show_dir,
                             strip_tvdb_suffix(Last(show_dir)),
                             sorted_names(iterdir(f, show_dir)), dry_run, failing))

\* _is_show_dir(path)
is_show_dir(f, path) == is_dir(f, path) /\ is_show_name(Last(path))

\* the directories os.walk lists in dirpath
subdirs(f, dirpath) == {Append(dirpath, n) : n \in {m \in iterdir(f, dirpath) :
                                                       is_dir(f, Append(dirpath, m))}}

(***************************************************************************)
(* Specification of a prepare run: a show folder holding loose episode     *)
(* files (some claiming the same episode, one that does not parse, a       *)
(* hidden one and one that is no media file), a sibling show folder, and   *)
(* possibly a folder whose token is in upper case or one without token     *)
(***************************************************************************)
PpShow ==
    <<"S", " ", "(", "2", "0", "0", "0", ")", " ", "{", "t", "v", "d", "b",
      "-", "1", "}">>
PpSibling ==
    <<"T", " ", "(", "2", "0", "0", "1", ")", " ", "{", "t", "v", "d", "b",
      "-", "2", "}">>
PpUpper ==
    <<"U", " ", "(", "2", "0", "0", "2", ")", " ", "{", "T", "V", "D", "B",
      "-", "3", "}">>
PpNoId == <<"V", " ", "(", "2", "0", "0", "3", ")">>
PpE5a == <<"s", "0", "1", "e", "0", "5", ".", "m", "k", "v">>
PpE5b == <<"S", "1", "E", "5", ".", "m", "p", "4">>
PpE5g ==
    <<"E", "p", "i", "s", "o", "d", "e", " ", "5", " ", "S", "t", "a", "f",
      "f", "e", "l", " ", "1", ".", "a", "v", "i">>
PpE6a == <<"s", "0", "1", "e", "0", "6", ".", "m", "k", "v">>
PpE6b == <<"S", "1", "E", "6", ".", "M", "K", "V">>
PpBad == <<"x", ".", "m", "k", "v">>
PpHidden == <<".", "s", "0", "1", "e", "0", "5", ".", "m", "k", "v">>
PpText == <<"s", "0", "1", "e", "0", "5", ".", "t", "x", "t">>
PpE5Target ==
    <<"S", " ", "(", "2", "0", "0", "0", ")", " ", "-", " ", "e", "0", "5",
      "s", "0", "1", ".", "m", "k", "v">>
PpSibEp == <<"s", "0", "2", "e", "0", "1", ".", "m", "k", "v">>
PpSibTarget ==
    <<"T", " ", "(", "2", "0", "0", "1", ")", " ", "-", " ", "e", "0", "1",
      "s", "0", "2", ".", "m", "k", "v">>
PpOtherEp == <<"s", "0", "3", "e", "0", "1", ".", "m", "k", "v">>

\* the sets of loose files the show folder may hold: none, single claims,
\* a file that does not parse, one or two episodes claimed twice or more
PpFileSets == {{}, {PpE5a}, {PpE5a, PpBad}, {PpE5a, PpE5b}, {PpE5a, PpE6a, PpBad},
               {PpE5g, PpE6b}, {PpE5a, PpE5g, PpE6a},
               {PpE5a, PpE5b, PpE5g, PpE6a, PpE6b, PpBad}}
PpSeason01 == season_name(1)

\* the show folder: the chosen loose files, the hidden file, the text file
\* and Season 01 absent, empty, holding the target of s01e05.mkv, or a file
PpShowTree(files, season) ==
    {<<<<PpShow>>, DirNode>>,
     <<<<PpShow, PpHidden>>, FileNode(20)>>,
     <<<<PpShow, PpText>>, FileNode(21)>>}
    \cup {<<<<PpShow, n>>, FileNode(Len(n))>> : n \in files}
    \cup (CASE season = "absent" -> {}
            [] season = "dir" -> {<<<<PpShow, PpSeason01>>, DirNode>>}
            [] season = "taken" -> {<<<<PpShow, PpSeason01>>, DirNode>>,
                                    <<<<PpShow, PpSeason01, PpE5Target>>, FileNode(22)>>}
            [] season = "file" -> {<<<<PpShow, PpSeason01>>, FileNode(23)>>})

\* the sibling show folder: one episode and one file that does not parse
PpSiblingTree ==
    {<<<<PpSibling>>, DirNode>>,
     <<<<PpSibling, PpSibEp>>, FileNode(30)>>,
     <<<<PpSibling, PpBad>>, FileNode(31)>>}

PpOtherTree(other) ==
    CASE other = "none" -> {}
      [] other = "upper" -> {<<<<PpUpper>>, DirNode>>,
                             <<<<PpUpper, PpOtherEp>>, FileNode(40)>>}
      [] other = "noid" -> {<<<<PpNoId>>, DirNode>>,
                            <<<<PpNoId, PpOtherEp>>, FileNode(41)>>}

InitPrepare ==
    /\ ci = FALSE
    /\ \E files \in PpFileSets, season \in {"absent", "dir", "taken", "file"},
          other \in {"none", "upper", "noid"} :
          fs = FsOf({<<Root, DirNode>>} \cup PpShowTree(files, season)
                    \cup PpSiblingTree \cup PpOtherTree(other))
    /\ pre = fs
    /\ call = NoCall
    /\ ret = 0
    /\ out = <<>>
    /\ ncalls = 0
    /\ run = NoRun

\* process() up to the first directory of the walk of root
PrepareStart ==
    /\ run.pc = "idle"
    /\ \E dry_run \in BOOLEAN :
        /\ run' = [pc |-> "loop", dry_run |-> dry_run,
                   pending |-> subdirs(fs, Root), processed |-> 0]
        /\ call' = [op |-> "prepare_start", dry_run |-> dry_run]
    /\ out' = <<>>
    /\ pre' = fs
    /\ UNCHANGED <<fs, ci, ret, ncalls>>

\* _iter_show_dirs yields a show directory and process() works on it; an
\* error of mkdir ends the run
PrepareShow ==
    /\ run.pc = "loop"
    /\ \E p \in run.pending, failing \in {{}, {PpE5a}} :
        /\ is_show_dir(fs, p)
        /\ failing \subseteq iterdir(fs, p)
        /\ LET r == prepare_show(fs, p, run.processed, run.dry_run, failing)
           IN  /\ fs' = r.fs
               /\ out' = r.out
               /\ run' = [run EXCEPT !.pc = IF r.raised THEN "raised" ELSE "loop",
                                     !.pending = run.pending \ {p},
                                     !.processed = r.processed]
               /\ call' = [op |-> "prepare_show", dir |-> p, dry_run |-> run.dry_run,
                           failing |-> failing, processed |-> run.processed,
                           pending |-> run.pending]
    /\ pre' = fs
    /\ UNCHANGED <<ci, ret, ncalls>>

\* os.walk goes on into a directory that is no show directory
PrepareDescend ==
    /\ run.pc = "loop"
    /\ \E p \in run.pending :
        /\ ~is_show_dir(fs, p)
        /\ run' = [run EXCEPT !.pending = (run.pending \ {p}) \cup subdirs(fs, p)]
        /\ call' = [op |-> "prepare_descend", dir |-> p, dry_run |-> run.dry_run,
                    failing |-> {}, processed |-> run.processed,
                    pending |-> run.pending]
    /\ out' = <<>>
    /\ pre' = fs
    /\ UNCHANGED <<fs, ci, ret, ncalls>>

\* process() after the walk: return (processed,)
PrepareReturn ==
    /\ run.pc = "loop"
    /\ run.pending = {}
    /\ run' = [run EXCEPT !.pc = "done"]
    /\ ret' = run.processed
    /\ call' = [op |-> "prepare_return"]
    /\ out' = <<>>
    /\ pre' = fs
    /\ UNCHANGED <<fs, ci, ncalls>>

NextPrepare == PrepareStart \/ PrepareShow \/ PrepareDescend \/ PrepareReturn

SpecPrepare == InitPrepare /\ [][NextPrepare]_vars

(***************************************************************************)
(* Claims about prepare                                                    *)
(***************************************************************************)
\* the last step worked on a show directory
PpShowStep == call.op = "prepare_show"

\* the validation report of that directory, as it was before the step
PpReport == validate_show(pre, call.dir)

PpHasError == \E i \in 1..Len(PpReport.msgs) : is_error_msg(PpReport.msgs[i])

\* the loose media files of that directory whose name parses
PpParsed == {n \in iterdir(pre, call.dir) :
                /\ is_file(pre, Append(call.dir, n))
                /\ ~startswith(n, <<".">>)
                /\ is_media_name(n)
                /\ parse_season_episode_from_name(n) # None}

\* <show>/Season SS/<title> - eEEsSS<ext> for the loose file n
PpTarget(n) ==
    call.dir \o <<season_name(parse_season_episode_from_name(n)[1]),
                  target_name(strip_tvdb_suffix(Last(call.dir)),
                              parse_season_episode_from_name(n), n)>>

\* out has a line with this tag for this destination
PpLineFor(tag, dst) == \E i \in 1..Len(out) : out[i].tag = tag /\ out[i].b = dst

\* the loose file n was normalized: skipped when its target existed, planned
\* in a dry run, reported when its rename raised, else moved to its target
PpNormalized(n) ==
    IF exists(pre, PpTarget(n))
    THEN /\ PpLineFor("SKIP exists", PpTarget(n))
         /\ NodeAt(fs, Append(call.dir, n)) = NodeAt(pre, Append(call.dir, n))
    ELSE IF call.dry_run
    THEN PpLineFor("MOVE+RENAME", PpTarget(n))
    ELSE IF n \in call.failing
    THEN /\ PpLineFor("ERROR", PpTarget(n))
         /\ NodeAt(fs, Append(call.dir, n)) = NodeAt(pre, Append(call.dir, n))
    ELSE /\ ~exists(fs, Append(call.dir, n))
         /\ NodeAt(fs, PpTarget(n)) = NodeAt(pre, Append(call.dir, n))
         /\ is_dir(fs, Parent(PpTarget(n)))

\* nothing outside the directory of the step has changed
PpOutsideUntouched ==
    /\ \A q \in DOMAIN pre : ~IsPrefix(call.dir, q) => (q \in DOMAIN fs /\ fs[q] = pre[q])
    /\ \A q \in DOMAIN fs : ~IsPrefix(call.dir, q) => q \in DOMAIN pre

\* C11: a show directory is normalized if and only if its validation report
\* has no ERROR.  With an ERROR the filesystem is left as it was (no season
\* folder, no move), every message is printed, followed by the SKIP line,
\* the count is unchanged and the run goes on with the directories still
\* pending.  Without ERROR (WARN messages or none) every message is printed
\* and every loose file that parses is normalized, unless the creation of
\* the season folder raised.  In both cases nothing outside the show
\* directory changes.
C11_ErrorSkipsShowOnly ==
    PpShowStep =>
        /\ SubSeq(out, 1, Len(PpReport.msgs)) = PpReport.msgs
        /\ PpOutsideUntouched
        /\ IF PpHasError
           THEN /\ fs = pre
                /\ out = Append(PpReport.msgs, Line("SKIP show", call.dir, call.dir))
                /\ run.processed = call.processed
                /\ run.pc = "loop"
                /\ run.pending = call.pending \ {call.dir}
           ELSE /\ ~PpLineFor("SKIP show", call.dir)
                /\ run.pc # "raised" => \A n \in PpParsed : PpNormalized(n)

\* C11 witness: in a real run the sibling show, whose report holds a WARN
\* only, has been normalized after the show with a duplicate episode was
\* skipped with its files in place.
C11_Witness ==
    /\ PpShowStep
    /\ call.dir = <<PpSibling>>
    /\ ~call.dry_run
    /\ \E i \in 1..Len(out) : out[i].tag = MSG_UNPARSED
    /\ is_file(fs, <<PpSibling, season_name(2), PpSibTarget>>)
    /\ ~exists(fs, <<PpSibling, PpSibEp>>)
    /\ <<PpShow>> \notin run.pending
    /\ ~validate_show(fs, <<PpShow>>).valid
    /\ is_file(fs, <<PpShow, PpE5a>>) /\ is_file(fs, <<PpShow, PpE5b>>)
    /\ ~exists(fs, <<PpShow, PpSeason01>>)

\* the loose media files of the directory of the step
PpLooseSet == {n \in iterdir(pre, call.dir) :
                  /\ is_file(pre, Append(call.dir, n))
                  /\ ~startswith(n, <<".">>)
                  /\ is_media_name(n)}

\* the loose media files claiming the episode k
PpClaimants(k) == {n \in PpLooseSet : parse_season_episode_from_name(n) = k}

\* the names a sequence lists
PpListed(s) == {s[i] : i \in 1..Len(s)}

\* C12: the report of a show directory has exactly one duplicate-episode
\* ERROR for every (season, episode) claimed by more than one loose media
\* file, listing exactly the claiming files, and none for any other episode;
\* every loose media file whose name does not parse has exactly one WARN and
\* is listed in no ERROR, and no other file has a WARN.
C12_DuplicatesAreErrorsUnparsedAreWarnings ==
    PpShowStep =>
        /\ \A k \in {parse_season_episode_from_name(n) : n \in PpLooseSet} \ {None} :
              Cardinality({i \in 1..Len(out) :
                              out[i].tag = MSG_DUPLICATE /\ out[i].a = k})
                  = IF Cardinality(PpClaimants(k)) > 1 THEN 1 ELSE 0
        /\ \A i \in 1..Len(out) :
              out[i].tag = MSG_DUPLICATE
                  => /\ PpListed(out[i].b) = PpClaimants(out[i].a)
                     /\ Len(out[i].b) = Cardinality(PpClaimants(out[i].a))
                     /\ Len(out[i].b) > 1
        /\ \A n \in PpLooseSet :
              Cardinality({i \in 1..Len(out) :
                              out[i].tag = MSG_UNPARSED /\ out[i].a = <<n>>})
                  = IF parse_season_episode_from_name(n) = None THEN 1 ELSE 0
        /\ \A i \in 1..Len(out) :
              out[i].tag = MSG_UNPARSED => out[i].a[1] \in PpLooseSet

\* C12 witness: the report of a show whose files claim two episodes twice
\* or more (one of them by a name in the German style) and hold a file that
\* does not parse has two ERROR lines and one WARN line.
C12_Witness ==
    /\ PpShowStep
    /\ Cardinality(PpClaimants(<<1, 5>>)) = 3
    /\ Cardinality(PpClaimants(<<1, 6>>)) = 2
    /\ Cardinality({i \in 1..Len(out) : out[i].tag = MSG_DUPLICATE}) = 2
    /\ Cardinality({i \in 1..Len(out) : out[i].tag = MSG_UNPARSED}) = 1
    /\ fs = pre

\* C13 as stated: of the directories the prepare flow comes to that hold
\* loose media files, exactly those whose name has no {tvdb-<digits>} token
\* in any case get the missing-id ERROR.
C13_MissingIdIsFlagged ==
    (/\ call.op \in {"prepare_show", "prepare_descend"}
     /\ loose_media(pre, call.dir) # <<>>)
    => (HasLine(out, MSG_MISSING) <=> extract_tvdb_id(Last(call.dir)) = None)

(***************************************************************************)
(* Claims about a dry run and a real run of migrate on the same libraries  *)
(***************************************************************************)
\* of the run and its twin, the filesystem of the one that is the dry run
MgDryFs == IF call.opts.dry_run THEN fs ELSE run.twin.fs

C19_FilesystemErrorDoesNotAbortRun ==
    call.op = "migrate_entry" => run.pc = "loop"

(***************************************************************************)
(* Episode renamer (EpisodeRenamerUtility.process)                         *)
(***************************************************************************)
\* normalize_episode_tag(text): "sSSeEE" or "sSSeEE-eFF" in lower case, or None
normalize_episode_tag(text) ==
    Bind(parse_episode_tag(text), LAMBDA parsed :
        IF parsed = None THEN None
        ELSE IF Len(parsed) = 3
        THEN <<"s">> \o format02(parsed[1]) \o <<"e">> \o format02(parsed[2])
                     \o <<"-", "e">> \o format02(parsed[3])
        ELSE <<"s">> \o format02(parsed[1]) \o <<"e">> \o format02(parsed[2]))

\* is_season_like_dirname(name): exactly one run of digits
is_season_like_dirname(name) == Cardinality(RunStarts(name)) = 1

\* the show folder of a file: the parent of a season-like folder, else the
\* folder of the file
show_dir_of(parent) ==
    IF parent # Root /\ is_season_like_dirname(Last(parent)) THEN Parent(parent) ELSE parent

\* the state of a run while the files are worked through
EpAcc(f, o, renamed) == [fs |-> f, out |-> o, renamed |-> renamed]

\* the case-only branch: two_step_case_rename, counted and logged when it
\* returned True
rename_case_only(acc, old_path, new_path, dry_run, fail) ==
    Bind(two_step_case_rename(acc.fs, old_path, new_path, dry_run, fail, FALSE, FALSE),
         LAMBDA r :
            IF r.ret
            THEN EpAcc(r.fs, acc.out \o r.out
                             \o <<Line("RENAMED (case-only)", old_path, new_path)>>,
                       acc.renamed + 1)
            ELSE EpAcc(r.fs, acc.out \o r.out, acc.renamed))

\* the other branch renaming without looking at the destination
rename_direct_overwriting(acc, old_path, new_path, dry_run, fail) ==
    IF dry_run
    THEN EpAcc(acc.fs, Append(acc.out, Line("RENAME (dry-run)", old_path, new_path)),
               acc.renamed + 1)
    ELSE Bind(rename(acc.fs, old_path, new_path, fail), LAMBDA r :
            IF r.ok
            THEN EpAcc(r.fs, Append(acc.out, Line("RENAMED", old_path, new_path)),
                       acc.renamed + 1)
            ELSE EpAcc(acc.fs, Append(acc.out, Line("ERROR", old_path, new_path)),
                       acc.renamed))

\* the other branch: SKIP when the destination exists, the plan in a dry
\* run, else the rename
rename_direct(acc, old_path, new_path, dry_run, fail) ==
    IF exists(acc.fs, new_path)
    THEN EpAcc(acc.fs, Append(acc.out, Line("SKIP exists", old_path, new_path)), acc.renamed)
    ELSE IF dry_run
    THEN EpAcc(acc.fs, Append(acc.out, Line("RENAME (dry-run)", old_path, new_path)),
               acc.renamed + 1)
    ELSE Bind(rename(acc.fs, old_path, new_path, fail), LAMBDA r :
            IF r.ok
            THEN EpAcc(r.fs, Append(acc.out, Line("RENAMED", old_path, new_path)),
                       acc.renamed + 1)
            ELSE EpAcc(acc.fs, Append(acc.out, Line("ERROR", old_path, new_path)),
                       acc.renamed))

\* "<show title> - <tag><suffix>"
episode_name(show_dir, se_tag, fn) ==
    strip_tvdb_suffix(Last(show_dir)) \o <<" ", "-", " ">> \o se_tag \o suffix(fn)

\* the body of "for fn in filenames" for the file old_path
episode_file(acc, library, old_path, dry_run, fail) ==
    IF startswith(Last(old_path), <<".">>) \/ normalize_episode_tag(Last(old_path)) = None
    THEN acc
    ELSE Bind(show_dir_of(Parent(old_path)), LAMBDA show_dir :
        IF show_dir = library \/ show_dir = Root THEN acc
        ELSE Bind(episode_name(show_dir, normalize_episode_tag(Last(old_path)),
                               Last(old_path)), LAMBDA new_name :
            IF Last(old_path) = new_name THEN acc
            ELSE IF lower(Last(old_path)) = lower(new_name)
            THEN rename_case_only(acc, old_path, Append(Parent(old_path), new_name),
                                  dry_run, fail)
            ELSE rename_direct(acc, old_path, Append(Parent(old_path), new_name),
                               dry_run, fail)))

\* the files os.walk lists below library
walk_filenames(f, library) ==
    {q \in Subtree(f, library) : q # library /\ f[q].kind = "file"}

(***************************************************************************)
(* Specification of an episode renamer run: a show with a season folder    *)
(* holding up to three episode files (two with the same canonical name,    *)
(* the canonical name itself, one differing from it by case only, a double *)
(* episode), a hidden file, a file without tag and a file in the library   *)
(* root.  Next to the run, a second run on the same starting tree with     *)
(* dry_run negated works on the same files (run.twin).                     *)
(***************************************************************************)
EP_LIB == <<<<"l">>>>
EpShow == <<"T", " ", "{", "t", "v", "d", "b", "-", "2", "}">>
EpSeason == <<"S", "1">>
EpA == <<"a", " ", "s", "0", "1", "e", "0", "2", ".", "m">>
EpB == <<"b", " ", "S", "1", "E", "2", ".", "m">>
EpCanon == <<"T", " ", "-", " ", "s", "0", "1", "e", "0", "2", ".", "m">>
EpCase == <<"t", " ", "-", " ", "S", "0", "1", "E", "0", "2", ".", "m">>
EpDouble == <<"x", " ", "S", "1", "E", "4", "-", "E", "5", ".", "m">>
EpDoubleCanon == <<"T", " ", "-", " ", "s", "0", "1", "e", "0", "4", "-", "e", "0", "5", ".", "m">>
EpHidden == <<".", "s", "0", "1", "e", "0", "3", ".", "m">>
EpUntagged == <<"n", ".", "m">>

EpFiles == {EpA, EpB, EpCanon, EpCase, EpDouble}

\* every file has a content of its own
EpData(n) == CASE n = EpA -> 1 [] n = EpB -> 2 [] n = EpCanon -> 3 [] n = EpCase -> 4
               [] OTHER -> 5

\* a file a merge has put under .plexleon_conflicts
EpQuarantined == <<"c", " ", "s", "0", "1", "e", "0", "2", ".", "m">>

\* a folder of several episodes named after them, and a file in it
EpPack == <<"p", " ", "s", "1", "e", "1", "-", "e", "9">>
EpPacked == <<"y", " ", "s", "1", "e", "3", ".", "m">>

EpTree(files, extra) ==
    {<<Root, DirNode>>, <<EP_LIB, DirNode>>,
     <<Append(EP_LIB, EpA), FileNode(9)>>,
     <<Append(EP_LIB, EpShow), DirNode>>,
     <<EP_LIB \o <<EpShow, EpSeason>>, DirNode>>,
     <<EP_LIB \o <<EpShow, EpSeason, EpHidden>>, FileNode(7)>>,
     <<EP_LIB \o <<EpShow, EpSeason, EpUntagged>>, FileNode(8)>>}
    \cup {<<EP_LIB \o <<EpShow, EpSeason, n>>, FileNode(EpData(n))>> : n \in files}
    \cup (CASE extra = "quarantined" ->
                 {<<EP_LIB \o <<EpShow, EpSeason, CONFLICTS_DIR>>, DirNode>>,
                  <<EP_LIB \o <<EpShow, EpSeason, CONFLICTS_DIR, EpQuarantined>>,
                    FileNode(6)>>}
            [] extra = "pack" ->
                 {<<EP_LIB \o <<EpShow, EpPack>>, DirNode>>,
                  <<EP_LIB \o <<EpShow, EpPack, EpPacked>>, FileNode(10)>>}
            [] OTHER -> {})

InitEpisode ==
    /\ ci \in BOOLEAN
    /\ \E files \in SUBSET EpFiles, extra \in {"none", "quarantined", "pack"} :
          /\ Cardinality(files) <= 3
          /\ (extra # "none" => Cardinality(files) <= 1)
          /\ (ci => ~(EpCanon \in files /\ EpCase \in files))
          /\ fs = FsOf(EpTree(files, extra))
    /\ pre = fs
    /\ call = NoCall
    /\ ret = 0
    /\ out = <<>>
    /\ ncalls = 0
    /\ run = NoRun

\* process() up to the loop: the files of the walk; a second real run may
\* follow a real run in which no rename raised for an outside reason
EpisodeStart ==
    /\ \/ run.pc = "idle"
       \/ run.pc = "done" /\ ~run.dry_run /\ ~run.second /\ ~run.faulted
    /\ \E dry_run \in BOOLEAN :
        /\ run.pc = "done" => ~dry_run
        /\ run' = [pc |-> "loop", dry_run |-> dry_run,
                   pending |-> walk_filenames(fs, EP_LIB), renamed |-> 0,
                   second |-> (run.pc = "done"), faulted |-> FALSE,
                   start |-> fs, twin |-> EpAcc(fs, <<>>, 0)]
        /\ call' = [op |-> "episode_start", dry_run |-> dry_run]
    /\ out' = <<>>
    /\ pre' = fs
    /\ UNCHANGED <<fs, ci, ret, ncalls>>

\* one iteration of "for fn in filenames", in any listing order; fail = the
\* rename of the double episode raises OSError for an outside reason
EpisodeFile ==
    /\ run.pc = "loop"
    /\ \E old_path \in run.pending, fail \in BOOLEAN :
        /\ fail => (Last(old_path) = EpDouble /\ ~run.dry_run /\ ~run.second)
        /\ LET acc == episode_file(EpAcc(fs, <<>>, run.renamed), EP_LIB, old_path,
                                   run.dry_run, fail)
               twin == episode_file(EpAcc(run.twin.fs, <<>>, run.twin.renamed), EP_LIB,
                                    old_path, ~run.dry_run, FALSE)
           IN  /\ fs' = acc.fs
               /\ out' = acc.out
               /\ run' = [run EXCEPT !.pending = run.pending \ {old_path},
                                     !.renamed = acc.renamed,
                                     !.faulted = run.faulted \/ fail,
                                     !.twin = twin]
               /\ call' = [op |-> "episode_file", old |-> old_path,
                           dry_run |-> run.dry_run, fail |-> fail,
                           renamed |-> run.renamed]
    /\ pre' = fs
    /\ UNCHANGED <<ci, ret, ncalls>>

\* process() after the loop: return (renamed,)
EpisodeReturn ==
    /\ run.pc = "loop"
    /\ run.pending = {}
    /\ run' = [run EXCEPT !.pc = "done"]
    /\ ret' = run.renamed
    /\ call' = [op |-> "episode_return", dry_run |-> run.dry_run]
    /\ out' = <<>>
    /\ pre' = fs
    /\ UNCHANGED <<fs, ci, ncalls>>

NextEpisode == EpisodeStart \/ EpisodeFile \/ EpisodeReturn

SpecEpisode == InitEpisode /\ [][NextEpisode]_vars

(***************************************************************************)
(* Claims about the episode renamer                                        *)
(***************************************************************************)
\* the renames a sequence of lines reports: <<old, new>>
EpRenames(o) == {<<o[i].a, o[i].b>> : i \in {j \in 1..Len(o) :
                    o[j].tag \in {"RENAME (dry-run)", "RENAMED", "RENAMED (case-only)"}}}

\* C15 as stated: the run and the run with dry_run negated on the same
\* starting tree, no rename raising for an outside reason, report the same
\* renames for every file and return the same renamed count.
C15_DryRunRenamesLikeRealRun ==
    /\ (call.op = "episode_file" /\ ~call.fail)
          => EpRenames(out) = EpRenames(run.twin.out)
    /\ call.op = "episode_return"
          => ret = run.twin.renamed


(***************************************************************************)
(* Claims about the end state of a merge and about the second hop          *)
(***************************************************************************)
\* the swap directory was left in place with a WARN line naming it
SnSwapWarned ==
    \E i \in 1..Len(out) : out[i].tag = "WARN" /\ out[i].a = call.swap

C20_SecondHopFailureRollsBack ==
    (call.op = "season_dir" /\ call.branch = "error")
        => /\ ~exists(fs, call.swap)
           /\ Content(fs, call.old) = Content(pre, call.old)


(***************************************************************************)
(* Season renamer, the whole run (SeasonRenamerUtility.process): os.walk    *)
(* over the library with the in-place update of dirnames                   *)
(***************************************************************************)
\* the loop body renaming the folders of the library root as well
season_entry_top_level_too(f, library, dirpath, d, dry_run) ==
    process_dir(f, dirpath, d, dry_run, {})

\* the body of "for d in list(dirnames)": the folders directly under the
\* library root are skipped, the others are worked on as in process_library
season_entry(f, library, dirpath, d, dry_run) ==
    IF ~is_dir(f, Append(dirpath, d)) \/ dirpath = library
    THEN SnResult(SnAcc(f, <<>>), 0, "none", Root, Root)
    ELSE process_dir(f, dirpath, d, dry_run, {})

\* dirnames[dirnames.index(d)] = new_name, for the branches that reach it
reflect_rename(dirnames, d, r) ==
    IF r.branch \in {"dry", "renamed", "merged"}
    THEN [dirnames EXCEPT ![d] = Last(r.new)]
    ELSE dirnames

\* what is decided for a folder: the line of the dry run, the branch of the
\* real run
decision(r) ==
    CASE r.branch = "skip" -> "SKIP"
      [] r.branch = "merged" -> "MERGE"
      [] r.branch = "renamed" -> "RENAME"
      [] r.branch = "error" -> "ERROR"
      [] r.branch = "dry" -> IF HasLine(r.out, "MERGE") THEN "MERGE" ELSE "RENAME"
      [] OTHER -> "NONE"

\* the first name of the listing: ascending or descending
next_name(S, rev) ==
    IF rev THEN CHOOSE x \in S : \A y \in S \ {x} : name_less(y, x) ELSE MinName(S)

\* dirnames as os.walk lists them for dirpath
walk_dirnames(f, dirpath) == {d \in iterdir(f, dirpath) : is_dir(f, Append(dirpath, d))}

RECURSIVE walk_push(_, _, _, _)
\* os.walk goes on with the names dirnames holds after the loop body
walk_push(dirpath, names, dirnames, rev) ==
    IF names = {} THEN <<>>
    ELSE Bind(next_name(names, rev), LAMBDA d :
            <<Append(dirpath, dirnames[d])>>
                \o walk_push(dirpath, names \ {d}, dirnames, rev))

(***************************************************************************)
(* Specification of a season renamer run on a library with one show folder *)
(* whose name has one run of digits, holding up to three season-like       *)
(* folders (two spellings of season 1, a case-only variant, the canonical  *)
(* name) and a season-like folder nested in one of them.  The listing      *)
(* order of a directory is ascending or descending, the same in every run; *)
(* a real run may follow a dry run on the tree the dry run left.           *)
(***************************************************************************)
WK_LIB == <<<<"l">>>>
WkShow == <<"T", " ", "1">>
WkS1 == <<"s", "1">>
WkSeason1 == <<"s", "e", "a", "s", "o", "n", " ", "1">>
WkNested == <<"s", "2">>
WkCanon2 == <<"S", "e", "a", "s", "o", "n", " ", "0", "2">>

WkData(d) == CASE d = WkS1 -> 21 [] d = WkSeason1 -> 22 [] d = SnOld -> 23
               [] d = SnNew -> 24 [] OTHER -> 25

WkTree(folders, nested) ==
    {<<Root, DirNode>>, <<WK_LIB, DirNode>>, <<Append(WK_LIB, WkShow), DirNode>>,
     <<WK_LIB \o <<WkShow, SnItemB>>, FileNode(20)>>}
    \cup {<<WK_LIB \o <<WkShow, d>>, DirNode>> : d \in folders}
    \cup {<<WK_LIB \o <<WkShow, d, SnItemA>>, FileNode(WkData(d))>> : d \in folders}
    \cup (IF nested = None THEN {}
          ELSE {<<WK_LIB \o <<WkShow, nested, WkNested>>, DirNode>>})

InitWalk ==
    /\ ci \in BOOLEAN
    /\ \E folders \in SUBSET {WkS1, WkSeason1, SnOld, SnNew},
          nested \in {None, WkS1, SnOld} :
          /\ Cardinality(folders) <= 3
          /\ (ci => ~(SnOld \in folders /\ SnNew \in folders))
          /\ (nested # None => nested \in folders)
          /\ fs = FsOf(WkTree(folders, nested))
    /\ pre = fs
    /\ call = NoCall
    /\ ret = 0
    /\ out = <<>>
    /\ ncalls = 0
    /\ \E rev \in BOOLEAN : run = [pc |-> "idle", rev |-> rev]

NoPrev == [dry_run |-> FALSE, ret |-> 0, decisions |-> <<>>, any |-> FALSE]

\* process() up to the loop; after a dry run a real run may follow
WalkStart ==
    /\ \/ run.pc = "idle"
       \/ run.pc = "done" /\ run.dry_run /\ ~run.prev.any
    /\ \E dry_run \in BOOLEAN :
        /\ run.pc = "done" => ~dry_run
        /\ run' = [pc |-> "pop", rev |-> run.rev, dry_run |-> dry_run,
                   stack |-> <<WK_LIB>>, dirpath |-> Root, todo |-> {},
                   names |-> {}, dirnames |-> <<>>, renamed |-> 0,
                   decisions |-> <<>>,
                   prev |-> IF run.pc = "idle" THEN NoPrev
                            ELSE [dry_run |-> TRUE, ret |-> ret,
                                  decisions |-> run.decisions, any |-> TRUE]]
        /\ call' = [op |-> "walk_start", dry_run |-> dry_run]
    /\ out' = <<>>
    /\ pre' = fs
    /\ UNCHANGED <<fs, ci, ret, ncalls>>

\* os.walk takes the next directory and lists it; a directory that cannot
\* be listed is passed over
WalkPop ==
    /\ run.pc = "pop"
    /\ run.stack # <<>>
    /\ LET top == Head(run.stack)
           names == IF is_dir(fs, top) THEN walk_dirnames(fs, top) ELSE {}
       IN  /\ run' = [run EXCEPT !.stack = Tail(run.stack),
                                 !.pc = IF is_dir(fs, top) THEN "loop" ELSE "pop",
                                 !.dirpath = top,
                                 !.names = names,
                                 !.todo = names,
                                 !.dirnames = [d \in names |-> d]]
           /\ call' = [op |-> "walk_pop", dirpath |-> top, listed |-> is_dir(fs, top)]
    /\ out' = <<>>
    /\ pre' = fs
    /\ UNCHANGED <<fs, ci, ret, ncalls>>

\* one iteration of "for d in list(dirnames)"
WalkEntry ==
    /\ run.pc = "loop"
    /\ run.todo # {}
    /\ LET d == next_name(run.todo, run.rev)
           r == season_entry(fs, WK_LIB, run.dirpath, d, run.dry_run)
       IN  /\ fs' = r.fs
           /\ out' = r.out
           /\ run' = [run EXCEPT !.todo = run.todo \ {d},
                                 !.dirnames = reflect_rename(run.dirnames, d, r),
                                 !.renamed = run.renamed + r.renamed,
                                 !.decisions = IF r.branch = "none" THEN run.decisions
                                               ELSE Append(run.decisions, decision(r))]
           /\ call' = [op |-> "walk_entry", dirpath |-> run.dirpath, d |-> d,
                       old |-> Append(run.dirpath, d), dry_run |-> run.dry_run,
                       new |-> r.new, swap |-> r.swap, branch |-> r.branch]
    /\ pre' = fs
    /\ UNCHANGED <<ci, ret, ncalls>>

\* the loop body is over: os.walk queues the names dirnames holds now
WalkPush ==
    /\ run.pc = "loop"
    /\ run.todo = {}
    /\ run' = [run EXCEPT !.pc = "pop",
                          !.stack = walk_push(run.dirpath, run.names, run.dirnames,
                                              run.rev) \o run.stack]
    /\ call' = [op |-> "walk_push", dirpath |-> run.dirpath]
    /\ out' = <<>>
    /\ pre' = fs
    /\ UNCHANGED <<fs, ci, ret, ncalls>>

\* process() after the walk: return (renamed,)
WalkReturn ==
    /\ run.pc = "pop"
    /\ run.stack = <<>>
    /\ run' = [run EXCEPT !.pc = "done"]
    /\ ret' = run.renamed
    /\ call' = [op |-> "walk_return", dry_run |-> run.dry_run]
    /\ out' = <<>>
    /\ pre' = fs
    /\ UNCHANGED <<fs, ci, ncalls>>

NextWalk == WalkStart \/ WalkPop \/ WalkEntry \/ WalkPush \/ WalkReturn

SpecWalk == InitWalk /\ [][NextWalk]_vars

(***************************************************************************)
(* Claims about the whole run of the season renamer                        *)
(***************************************************************************)
\* C16 as stated: a real run on the tree a dry run was given (and left
\* unchanged) decides RENAME, MERGE or SKIP for the same folders in the same
\* order as the dry run logged, and returns the same count.
C16_DryRunPlansLikeRealRun ==
    (call.op = "walk_return" /\ ~call.dry_run /\ run.prev.any)
        => /\ ret = run.prev.ret
           /\ run.decisions = run.prev.decisions

\* the top-level show folder is where it was, with the file it holds, and
\* the library root holds nothing else
WkShowInPlace ==
    /\ iterdir(fs, WK_LIB) = {WkShow}
    /\ is_dir(fs, Append(WK_LIB, WkShow))
    /\ is_file(fs, WK_LIB \o <<WkShow, SnItemB>>)

\* C17: a folder directly under the library root is never renamed, although
\* its name has exactly one run of digits; a season-like folder below it,
\* whose canonical name is free, is renamed to `Season NN` by a real run.
C17_TopLevelFoldersAreNotRenamed ==
    /\ WkShowInPlace
    /\ (call.op = "walk_entry" /\ call.dirpath = WK_LIB)
          => (call.d = WkShow /\ call.branch = "none" /\ fs = pre)
    /\ (/\ call.op = "walk_entry"
        /\ call.old = WK_LIB \o <<WkShow, WkS1>>
        /\ ~call.dry_run
        /\ ~exists(pre, WK_LIB \o <<WkShow, SnNew>>))
          => /\ call.branch = "renamed"
             /\ ~exists(fs, call.old)
             /\ Content(fs, WK_LIB \o <<WkShow, SnNew>>) = Content(pre, call.old)

\* C17 witness: the real run has passed over the show folder `T 1` and has
\* renamed its subfolder `s1` to `Season 01`.
C17_Witness ==
    /\ call.op = "walk_entry"
    /\ ~call.dry_run
    /\ call.old = WK_LIB \o <<WkShow, WkS1>>
    /\ call.branch = "renamed"
    /\ is_season_dir_name(WkShow).ok
    /\ WkShowInPlace
    /\ fs[WK_LIB \o <<WkShow, SnNew, SnItemA>>] = FileNode(WkData(WkS1))
    /\ ~exists(fs, WK_LIB \o <<WkShow, WkS1>>)


(***************************************************************************)
(* Specification of the name parsers: a name is drawn from the folder      *)
(* names over a small alphabet, from the file names "x<s><digits>E<digits>"*)
(* with an optional "-e<digits>", and from the names of the tests; the     *)
(* parsers are applied to it.                                              *)
(***************************************************************************)
MaxNameLen == 4
MaxDigits == 3

\* the sequences over the characters A of length lo..hi
SeqsOver(A, lo, hi) == UNION {[1..n -> A] : n \in lo..hi}

PsDirNames == SeqsOver({"S", " ", "1", "2"}, 0, MaxNameLen)

PsTagNames ==
    {<<"x">> \o s \o d1 \o <<"E">> \o d2 \o tail :
        s \in {<<"s">>, <<"S">>},
        d1 \in SeqsOver({"0", "1"}, 1, MaxDigits),
        d2 \in SeqsOver({"0", "1"}, 1, MaxDigits),
        tail \in {<<>>} \cup {<<"-", "e">> \o d3 : d3 \in SeqsOver({"0", "1"}, 1, 2)}}

PsSeason01 == <<"S", "e", "a", "s", "o", "n", " ", "0", "1">>
PsStaffel == <<"S", "t", "a", "f", "f", "e", "l", " ", "0", "2">>
PsDash == <<"S", "-", "3">>
PsNoDigits == <<"N", "o", "t", " ", "a", " ", "s", "e", "a", "s", "o", "n">>
PsTwoRuns == <<"T", "w", "o", " ", "1", " ", "n", "u", "m", "b", "e", "r", "s", " ", "2">>
PsShowTitle == <<"T", " ", "(", "2", "0", "1", "1", ")", " ", "{", "t", "v", "d", "b", "-", "1", "2", "}">>
PsLong == <<"S", "0", "1", "E", "1", "0", "0">>
PsLonger == <<"S", "0", "1", "E", "1", "0", "1">>
PsDouble == <<"E", "p", "i", "s", "o", "d", "e", " ", "s", "3", "e", "0", "4", "-", "e", "0", "5">>
PsGerman == <<"E", "p", "i", "s", "o", "d", "e", " ", "1", "2", " ", "S", "t", "a", "f", "f", "e", "l", " ", "2">>

PsTestNames == {PsSeason01, PsStaffel, PsDash, PsNoDigits, PsTwoRuns, PsShowTitle,
                PsLong, PsLonger, PsDouble, PsGerman}

InitParse ==
    /\ ci = FALSE
    /\ fs = FsOf({<<Root, DirNode>>})
    /\ pre = fs
    /\ call = NoCall
    /\ ret = 0
    /\ out = <<>>
    /\ ncalls = 0
    /\ \E name \in PsDirNames \cup PsTagNames \cup PsTestNames :
          run = [pc |-> "idle", name |-> name]

\* is_season_like_dirname(name) and _is_season_dir_name(name)
SeasonDirName ==
    /\ call' = [op |-> "is_season_dir_name", name |-> run.name]
    /\ ret' = [like |-> is_season_like_dirname(run.name),
               ok |-> is_season_dir_name(run.name).ok,
               num |-> is_season_dir_name(run.name).num]
    /\ UNCHANGED <<fs, ci, pre, out, ncalls, run>>

\* parse_episode_tag(text)
ParseEpisodeTag ==
    /\ call' = [op |-> "parse_episode_tag", name |-> run.name]
    /\ ret' = parse_episode_tag(run.name)
    /\ UNCHANGED <<fs, ci, pre, out, ncalls, run>>

\* normalize_episode_tag(text)
NormalizeEpisodeTag ==
    /\ call' = [op |-> "normalize_episode_tag", name |-> run.name]
    /\ ret' = normalize_episode_tag(run.name)
    /\ UNCHANGED <<fs, ci, pre, out, ncalls, run>>

\* _parse_season_episode_from_name(name)
ParseSeasonEpisodeFromName ==
    /\ call' = [op |-> "parse_season_episode_from_name", name |-> run.name]
    /\ ret' = parse_season_episode_from_name(run.name)
    /\ UNCHANGED <<fs, ci, pre, out, ncalls, run>>

NextParse ==
    SeasonDirName \/ ParseEpisodeTag \/ NormalizeEpisodeTag \/ ParseSeasonEpisodeFromName

SpecParse == InitParse /\ [][NextParse]_vars

(***************************************************************************)
(* Claims about the name parsers                                           *)
(***************************************************************************)
\* where the maximal runs of digits of the name end
PsRunEnds(name) ==
    {i \in 1..Len(name) : IsDigit(name[i]) /\ (i = Len(name) \/ ~IsDigit(name[i + 1]))}

\* C24: a name is season-like iff it has exactly one maximal run of digits,
\* and then its season number is that run read as an integer; with no run
\* or several runs it is not season-like and has no season number.
C24_SeasonLikeIffOneDigitRun ==
    call.op = "is_season_dir_name"
        => /\ ret.like = (Cardinality(PsRunEnds(call.name)) = 1)
           /\ ret.ok = ret.like
           /\ ret.ok => ret.num = int_of(SelectSeq(call.name, IsDigit))

\* C24 witness: `Staffel 02` was found season-like with number 2.
C24_Witness ==
    /\ call.op = "is_season_dir_name"
    /\ call.name = PsStaffel
    /\ ret.like /\ ret.ok /\ ret.num = 2

\* C25 as stated: a tag with a second episode has it not below the first.
C25_EpisodeEndNotBelowEpisode ==
    (call.op = "parse_episode_tag" /\ Len(ret) = 3) => ret[3] >= ret[2]

\* "s", a run of digits, "e", a run of digits at i, any case
PsFullTagAt(name, i) ==
    /\ lower_char(name[i]) = "s"
    /\ i + 3 <= Len(name)
    /\ IsDigit(name[i + 1])
    /\ RunEnd(name, i + 1) + 2 <= Len(name)
    /\ lower_char(name[RunEnd(name, i + 1) + 1]) = "e"
    /\ IsDigit(name[RunEnd(name, i + 1) + 2])

\* the two whole runs of the tag at i
PsSeasonRun(name, i) == SubSeq(name, i + 1, RunEnd(name, i + 1))
PsEpisodeRun(name, i) ==
    SubSeq(name, RunEnd(name, i + 1) + 2, RunEnd(name, RunEnd(name, i + 1) + 2))

\* C28 as stated: for a name with one s<digits>e<digits>, the parsed season
\* and episode are the integers of the whole runs, or the name is rejected
\* when a run has more than two digits.
C28_WholeDigitRunsOrRejected ==
    (call.op = "parse_episode_tag" /\ call.name \in PsTagNames \cup {PsLong, PsLonger})
        => \A i \in 1..Len(call.name) :
              PsFullTagAt(call.name, i)
                 => IF Len(PsSeasonRun(call.name, i)) > 2
                       \/ Len(PsEpisodeRun(call.name, i)) > 2
                    THEN ret = None
                    ELSE /\ ret # None
                         /\ ret[1] = int_of(PsSeasonRun(call.name, i))
                         /\ ret[2] = int_of(PsEpisodeRun(call.name, i))


\* the contents of the files stored below p
EpContents(f, p) == {f[q].data : q \in {x \in Subtree(f, p) : f[x].kind = "file"}}

\* the number of files stored below p
EpFileCount(f, p) == Cardinality({x \in Subtree(f, p) : f[x].kind = "file"})

EpSeasonDir == EP_LIB \o <<EpShow, EpSeason>>
EpCanonPath == Append(EpSeasonDir, EpCanon)

\* the names of the season folder that are, or map to, `T - s01e02.m`
EpClaimants(f) == iterdir(f, EpSeasonDir) \cap {EpA, EpB, EpCase, EpCanon}

\* C27: a real run loses no file content at any step; a file whose canonical
\* name is held by another file stays as it is and SKIP exists is printed;
\* at the end of a run in which several names were, or mapped to, the same
\* canonical name, one file holds that name and every other one is under
\* its original name with its content.
C27_NeverOverwritesOrDeletes ==
    /\ (call.op = "episode_file" /\ ~call.dry_run)
          => /\ EpContents(fs, EP_LIB) = EpContents(pre, EP_LIB)
             /\ EpFileCount(fs, EP_LIB) = EpFileCount(pre, EP_LIB)
             /\ (/\ Parent(call.old) = EpSeasonDir
                 /\ Last(call.old) \in {EpA, EpB, EpCase}
                 /\ exists(pre, EpCanonPath)
                 /\ Resolve(pre, EpCanonPath) # Resolve(pre, call.old))
                   => /\ fs = pre
                      /\ \E i \in 1..Len(out) :
                            out[i].tag = "SKIP exists" /\ out[i].b = EpCanonPath
    /\ (/\ call.op = "episode_return"
        /\ ~call.dry_run
        /\ Cardinality(EpClaimants(run.start)) >= 2)
          => /\ EpCanon \in iterdir(fs, EpSeasonDir)
             /\ Cardinality(EpClaimants(run.start) \ iterdir(fs, EpSeasonDir)) <= 1
             /\ \A n \in EpClaimants(run.start) \cap iterdir(fs, EpSeasonDir) :
                   n # EpCanon => fs[Append(EpSeasonDir, n)] = run.start[Append(EpSeasonDir, n)]
             /\ EpContents(fs, EP_LIB) = EpContents(run.start, EP_LIB)

\* C27 witness: `a s01e02.m` and `b S1E2.m` mapped to the same name; the real
\* run gave it to one of them and SKIP exists was printed for the other,
\* which is where it was.
C27_Witness ==
    /\ call.op = "episode_file"
    /\ ~call.dry_run
    /\ Last(call.old) = EpB
    /\ \E i \in 1..Len(out) : out[i].tag = "SKIP exists"
    /\ ~exists(run.start, EpCanonPath)
    /\ fs[EpCanonPath] = FileNode(EpData(EpA))
    /\ fs[Append(EpSeasonDir, EpB)] = FileNode(EpData(EpB))
    /\ ~exists(fs, Append(EpSeasonDir, EpA))


\* a component of the path above its last one starts with "."
EpBelowHidden(p) == \E i \in 1..(Len(p) - 1) : startswith(p[i], <<".">>)

\* C29 as stated: a file below a hidden directory is not renamed.
C29_NothingBelowHiddenIsRenamed ==
    (call.op = "episode_file" /\ EpBelowHidden(call.old)) => fs = pre


\* C26 as stated, for the episode renamer: a real run that directly follows
\* a completed real run renames nothing, returns 0 and leaves the
\* filesystem as it found it.
C26_SecondRunChangesNothing ==
    /\ (call.op = "episode_file" /\ run.second) => (fs = pre /\ run.renamed = 0)
    /\ (call.op = "episode_return" /\ run.second) => (ret = 0 /\ fs = run.start)


\* how many lines of o carry the tag
MgCount(o, tag) == Cardinality({i \in 1..Len(o) : o[i].tag = tag})

\* C30 as stated: the moved count grows by the number of MOVE lines of the
\* entry, so an item skipped with SKIP exists is not counted, and the run
\* returns the count.
C30_MovedCountsMoveLines ==
    /\ (call.op = "migrate_entry" /\ run.pc = "loop")
          => run.moved - call.moved = MgCount(out, "MOVE")
    /\ call.op = "migrate_return" => ret[1] = run.moved


\* C23 as stated: a title with an identifier that is in library-b is
\* reconciled when it lies in a bucket folder of library-a: after a real run
\* it is under a category of library-c.
C23_BucketedSourceIsReconciled ==
    (/\ call.op = "migrate_return"
     /\ ~run.opts.dry_run
     /\ is_file(run.start, LIB_A \o <<MgBucket, MgBucketed>>)
     /\ in_reference(extract_tvdb_id(MgBucketed), run.b_index))
        => \E cat \in {BETTER_RESOLUTION, GREATER_FILESIZE, TO_DELETE} :
              \E q \in Subtree(fs, Append(LIB_C, cat)) : Last(q) = MgBucketed


(***************************************************************************)
(* The prefetch pool of migrate (threads > 1 and prefer_resolution): for   *)
(* every episode with a counterpart the main thread submits                *)
(* _get_res(src_ep) and _get_res(b_ep) to the executor and then calls both *)
(* itself.  The steps of a call of _get_res -- the lookup in the memo of   *)
(* lru_cache, the probe on a miss, the store of its result -- interleave   *)
(* with the steps of the workers.  Next to the run, a run of process() on  *)
(* the same starting libraries without the pool works on the same entries  *)
(* (run.off).  Library-a holds a show with two files of episode 1, an      *)
(* untagged file and an entry without id; library-c is absent or a         *)
(* regular file.                                                           *)
(***************************************************************************)
PoolThreads == 2
LRU_MAXSIZE == 4096

PoolWorkers == 1..PoolThreads

\* the memo of lru_cache: entries [path, res], least recently used first
LruEntry(path, res) == [path |-> path, res |-> res]
lru_has(cache, path) == \E i \in 1..Len(cache) : cache[i].path = path
lru_get(cache, path) == cache[CHOOSE i \in 1..Len(cache) : cache[i].path = path].res
lru_without(cache, path) ==
    [i \in 1..(Len(cache) - 1) |->
        IF \E j \in 1..i : cache[j].path = path THEN cache[i + 1] ELSE cache[i]]

\* a hit makes the entry the most recently used
lru_touch(cache, path) ==
    Append(lru_without(cache, path), LruEntry(path, lru_get(cache, path)))

\* the store after a miss: nothing when another call stored the key in the
\* meantime, the least recently used entry dropped when the memo is full
lru_store(cache, path, res) ==
    IF lru_has(cache, path) THEN cache
    ELSE IF Len(cache) >= LRU_MAXSIZE THEN Append(Tail(cache), LruEntry(path, res))
    ELSE Append(cache, LruEntry(path, res))

\* the main thread taking what the memo holds so far, and no resolution
\* on a miss while the pool is prefetching
main_lookup_prefetched_only(cache, path, executor) ==
    IF lru_has(cache, path) THEN [hit |-> TRUE, res |-> lru_get(cache, path)]
    ELSE [hit |-> executor, res |-> None]

\* res = _get_res(path) on the main thread, up to the lookup
main_lookup(cache, path, executor) ==
    IF lru_has(cache, path) THEN [hit |-> TRUE, res |-> lru_get(cache, path)]
    ELSE [hit |-> FALSE, res |-> None]

\* one more invocation of read_video_resolution(path)
count_probe(probes, path) ==
    [p \in DOMAIN probes \cup {path} |->
        IF p = path THEN (IF p \in DOMAIN probes THEN probes[p] + 1 ELSE 1)
        ELSE probes[p]]

PoolShowA == Append(LIB_A, MgShow)

PoolLibA(qa) ==
    {<<LIB_A, DirNode>>,
     <<Append(LIB_A, MgNoId), FileNode(qa)>>,
     <<PoolShowA, DirNode>>,
     <<PoolShowA \o <<MgSeason>>, DirNode>>,
     <<PoolShowA \o <<MgSeason, MgEp1>>, FileNode(qa)>>,
     <<PoolShowA \o <<MgEp1>>, FileNode(qa)>>,
     <<PoolShowA \o <<MgUntagged>>, FileNode(qa)>>}

InitPool ==
    /\ ci = FALSE
    /\ \E pair \in MgPairs, blocked \in BOOLEAN :
          fs = FsOf({<<Root, DirNode>>}
                    \cup PoolLibA(pair[1])
                    \cup MgLibB(pair[2], "absent")
                    \cup (IF blocked THEN MgBlockedC ELSE {}))
    /\ pre = fs
    /\ call = NoCall
    /\ ret = <<0, 0>>
    /\ out = <<>>
    /\ ncalls = 0
    /\ run = NoRun

IdleWorker == [st |-> "idle", path |-> Root, res |-> None]

\* the path the main thread is asking _get_res for
PoolSide == IF run.side = "a" THEN run.src ELSE run.ref.path

\* the main thread after _get_res returned res for the current side
PoolGot(r, res) ==
    IF r.side = "a" THEN [r EXCEPT !.res_a = res, !.side = "b", !.pc = "lookup"]
    ELSE [r EXCEPT !.res_b = res, !.side = "a", !.pc = "move"]

\* process() up to the loop (library-a and library-b are directories), the
\* executor created when threads > 1 and prefer_resolution
PoolStart ==
    /\ run.pc = "idle"
    /\ \E dry_run \in BOOLEAN, prefer_resolution \in BOOLEAN, threads \in 1..PoolThreads :
        /\ call' = [op |-> "pool_start", threads |-> threads]
        /\ run' = [pc |-> "entry",
                   opts |-> [overwrite |-> FALSE, dry_run |-> dry_run,
                             prefer_resolution |-> prefer_resolution],
                   executor |-> (threads > 1 /\ prefer_resolution),
                   b_index |-> build_index(fs, LIB_B),
                   pending |-> {Append(LIB_A, n) : n \in iterdir(fs, LIB_A)},
                   entry |-> Root, files |-> {}, ep_idx |-> <<>>,
                   src |-> Root, ref |-> NoRef, side |-> "a",
                   res_a |-> None, res_b |-> None, tmp |-> None,
                   cache |-> <<>>, queue |-> <<>>,
                   workers |-> [w \in PoolWorkers |-> IdleWorker],
                   probes |-> <<>>, late |-> {},
                   log |-> <<>>, moved |-> 0, skipped |-> 0,
                   off |-> MgAcc(fs, <<>>, 0, 0, <<>>, FALSE)]
    /\ out' = <<>>
    /\ pre' = fs
    /\ UNCHANGED <<fs, ci, ret, ncalls>>

\* "for entry in lib_a.iterdir()", in any listing order: a show found in
\* library-b is walked file by file, any other entry is dealt with at once
PoolEntry ==
    /\ run.pc = "entry"
    /\ \E entry \in run.pending :
        LET tvdb == extract_tvdb_id(Last(entry))
            off == migrate_entry([run.off EXCEPT !.out = <<>>], entry, run.b_index,
                                 run.opts, LIB_C)
        IN  /\ IF /\ ~startswith(Last(entry), <<".">>)
                  /\ tvdb # None
                  /\ in_reference(tvdb, run.b_index)
                  /\ ~is_file(fs, entry)
               THEN /\ run' = [run EXCEPT
                                 !.pc = "file",
                                 !.pending = run.pending \ {entry},
                                 !.entry = entry,
                                 !.files = walk_files(fs, {entry}),
                                 !.ep_idx = build_episode_index(fs,
                                     {p \in index_get(run.b_index, tvdb) : is_dir(fs, p)}),
                                 !.off = [off EXCEPT !.out = run.off.out \o off.out]]
                    /\ UNCHANGED fs
               ELSE LET acc == migrate_entry(MgAcc(fs, <<>>, run.moved, run.skipped,
                                                   <<>>, FALSE),
                                             entry, run.b_index, run.opts, LIB_C)
                    IN  /\ run' = [run EXCEPT
                                     !.pc = IF acc.raised THEN "raised" ELSE "entry",
                                     !.pending = run.pending \ {entry},
                                     !.log = run.log \o acc.out,
                                     !.moved = acc.moved,
                                     !.skipped = acc.skipped,
                                     !.off = [off EXCEPT !.out = run.off.out \o off.out]]
                        /\ fs' = acc.fs
            /\ call' = [op |-> "pool_entry", entry |-> entry]
    /\ out' = <<>>
    /\ pre' = fs
    /\ UNCHANGED <<ci, ret, ncalls>>

\* the next file of the walk of the show: skipped without an episode tag,
\* compared by resolution when prefer_resolution and it has a counterpart
PoolFile ==
    /\ run.pc = "file"
    /\ IF run.files = {}
       THEN run' = [run EXCEPT !.pc = "entry"]
       ELSE LET src_ep == CHOOSE p \in run.files :
                              \A q \in run.files \ {p} : path_less(p, q)
                se == parse_season_episode(Last(src_ep))
                b_ep == episode_get(run.ep_idx, se)
            IN  IF se = None
                THEN run' = [run EXCEPT !.files = run.files \ {src_ep},
                                        !.skipped = run.skipped + 1]
                ELSE run' = [run EXCEPT
                               !.files = run.files \ {src_ep},
                               !.src = src_ep, !.ref = b_ep, !.side = "a",
                               !.res_a = None, !.res_b = None,
                               !.pc = IF run.opts.prefer_resolution /\ b_ep.found
                                      THEN (IF run.executor THEN "submit" ELSE "lookup")
                                      ELSE "move"]
    /\ call' = [op |-> "pool_file"]
    /\ out' = <<>>
    /\ pre' = fs
    /\ UNCHANGED <<fs, ci, ret, ncalls>>

\* executor.submit(_get_res, src_ep), then executor.submit(_get_res, b_ep)
PoolSubmit ==
    /\ run.pc = "submit"
    /\ run' = [run EXCEPT !.queue = Append(run.queue, PoolSide),
                          !.side = IF run.side = "a" THEN "b" ELSE "a",
                          !.pc = IF run.side = "a" THEN "submit" ELSE "lookup"]
    /\ call' = [op |-> "pool_submit", path |-> PoolSide]
    /\ out' = <<>>
    /\ pre' = fs
    /\ UNCHANGED <<fs, ci, ret, ncalls>>

\* _get_res on the main thread: the lookup in the memo
PoolLookup ==
    /\ run.pc = "lookup"
    /\ LET found == main_lookup(run.cache, PoolSide, run.executor)
       IN  IF found.hit
           THEN run' = PoolGot([run EXCEPT
                                  !.cache = IF lru_has(run.cache, PoolSide)
                                            THEN lru_touch(run.cache, PoolSide)
                                            ELSE run.cache],
                               found.res)
           ELSE run' = [run EXCEPT !.pc = "probe"]
    /\ call' = [op |-> "pool_lookup", path |-> PoolSide]
    /\ out' = <<>>
    /\ pre' = fs
    /\ UNCHANGED <<fs, ci, ret, ncalls>>

\* _get_res on the main thread: read_video_resolution after a miss
PoolProbe ==
    /\ run.pc = "probe"
    /\ run' = [run EXCEPT !.tmp = read_video_resolution(fs, PoolSide),
                          !.probes = count_probe(run.probes, PoolSide),
                          !.pc = "store"]
    /\ call' = [op |-> "pool_probe", path |-> PoolSide]
    /\ out' = <<>>
    /\ pre' = fs
    /\ UNCHANGED <<fs, ci, ret, ncalls>>

\* _get_res on the main thread: the result stored and returned
PoolStore ==
    /\ run.pc = "store"
    /\ run' = PoolGot([run EXCEPT !.cache = lru_store(run.cache, PoolSide, run.tmp)],
                      run.tmp)
    /\ call' = [op |-> "pool_store", path |-> PoolSide]
    /\ out' = <<>>
    /\ pre' = fs
    /\ UNCHANGED <<fs, ci, ret, ncalls>>

\* the decision, its DECISION line, move_file and moved += 1
PoolMove ==
    /\ run.pc = "move"
    /\ LET dc == Decision(run.ref, run.res_a, run.res_b, file_size(fs, run.src),
                          IF run.ref.found THEN file_size(fs, run.ref.path) ELSE 0)
           acc == relocate(MgAcc(fs, <<>>, run.moved, run.skipped, <<>>, FALSE),
                           run.src, dc,
                           LIB_C \o <<dc.reason>> \o episode_dest_rel(run.entry, run.src),
                           run.opts)
       IN  /\ fs' = acc.fs
           /\ out' = acc.out
           /\ run' = [run EXCEPT !.pc = IF acc.raised THEN "raised" ELSE "file",
                                 !.log = run.log \o acc.out,
                                 !.moved = acc.moved]
    /\ call' = [op |-> "pool_move", src |-> run.src]
    /\ pre' = fs
    /\ UNCHANGED <<ci, ret, ncalls>>

\* a worker takes the oldest submitted call of _get_res: the lookup
WorkerRun(w) ==
    /\ run.pc \notin {"idle", "done"}
    /\ run.workers[w].st = "idle"
    /\ run.queue # <<>>
    /\ LET path == Head(run.queue)
       IN  /\ IF lru_has(run.cache, path)
              THEN run' = [run EXCEPT !.queue = Tail(run.queue),
                                      !.cache = lru_touch(run.cache, path)]
              ELSE run' = [run EXCEPT !.queue = Tail(run.queue),
                                      !.workers[w] = [st |-> "probe", path |-> path,
                                                      res |-> None]]
           /\ call' = [op |-> "worker_run", path |-> path]
    /\ out' = <<>>
    /\ pre' = fs
    /\ UNCHANGED <<fs, ci, ret, ncalls>>

\* a worker's read_video_resolution after a miss
WorkerProbe(w) ==
    /\ run.pc \notin {"idle", "done"}
    /\ run.workers[w].st = "probe"
    /\ LET path == run.workers[w].path
       IN  /\ run' = [run EXCEPT
                        !.workers[w] = [st |-> "store", path |-> path,
                                        res |-> read_video_resolution(fs, path)],
                        !.probes = count_probe(run.probes, path),
                        !.late = IF is_file(fs, path)
                                 THEN run.late ELSE run.late \cup {path}]
           /\ call' = [op |-> "worker_probe", path |-> path]
    /\ out' = <<>>
    /\ pre' = fs
    /\ UNCHANGED <<fs, ci, ret, ncalls>>

\* a worker's result stored
WorkerStore(w) ==
    /\ run.pc \notin {"idle", "done"}
    /\ run.workers[w].st = "store"
    /\ run' = [run EXCEPT
                 !.cache = lru_store(run.cache, run.workers[w].path, run.workers[w].res),
                 !.workers[w] = IdleWorker]
    /\ call' = [op |-> "worker_store", path |-> run.workers[w].path]
    /\ out' = <<>>
    /\ pre' = fs
    /\ UNCHANGED <<fs, ci, ret, ncalls>>

\* after the loop: executor.shutdown(wait=True), return moved, skipped
PoolShutdown ==
    /\ run.pc = "entry"
    /\ run.pending = {}
    /\ run.queue = <<>>
    /\ \A w \in PoolWorkers : run.workers[w].st = "idle"
    /\ run' = [run EXCEPT !.pc = "done"]
    /\ ret' = <<run.moved, run.skipped>>
    /\ call' = [op |-> "pool_return"]
    /\ out' = <<>>
    /\ pre' = fs
    /\ UNCHANGED <<fs, ci, ncalls>>

NextPool ==
    \/ PoolStart
    \/ PoolEntry
    \/ PoolFile
    \/ PoolSubmit
    \/ PoolLookup
    \/ PoolProbe
    \/ PoolStore
    \/ PoolMove
    \/ PoolShutdown
    \/ \E w \in PoolWorkers : WorkerRun(w)
    \/ \E w \in PoolWorkers : WorkerProbe(w)
    \/ \E w \in PoolWorkers : WorkerStore(w)

SpecPool == InitPool /\ [][NextPool]_vars

(***************************************************************************)
(* Claims about the prefetch pool                                          *)
(***************************************************************************)
\* C21: a run with the prefetch pool emits, under every interleaving of the
\* workers with the main thread, the decisions and moves of the run without
\* the pool, in the same order, leaves the same files behind and counts the
\* same moved and skipped items.
C21_PoolHasNoEffect ==
    (run.pc \in {"entry", "done", "raised"} /\ run.executor)
        => /\ run.log = run.off.out
           /\ fs = run.off.fs
           /\ run.moved = run.off.moved
           /\ run.skipped = run.off.skipped
           /\ (run.pc = "raised") = run.off.raised

\* a real run with the pool has returned after moving both episodes, a
\* worker having probed a source file that the main thread had moved before
C21_Witness ==
    /\ run.pc = "done"
    /\ run.executor
    /\ ~run.opts.dry_run
    /\ ret[1] = 2
    /\ \E p \in run.late : IsPrefix(PoolShowA, p)

\* C22: within one run the probe is invoked at most once for any path.
C22_ProbeAtMostOncePerPath ==
    run.pc # "idle" => \A p \in DOMAIN run.probes : run.probes[p] <= 1

====
